---- MODULE Spec2Model ----
(***************************************************************************)
(* Model of go-mod-archived: the bounded-concurrency enrichment schedulers *)
(* (resolve.go, deprecated.go, enrich.go), the batched GitHub GraphQL      *)
(* client (CheckRepos / queryBatch / parseGraphQLResponse) and the         *)
(* identity filter (FilterGitHub).                                         *)
(*                                                                         *)
(* A module path is modelled as the sequence of its "/"-separated          *)
(* segments: "github.com/foo/bar" is <<"github.com", "foo", "bar">>.       *)
(***************************************************************************)
EXTENDS Integers, Sequences, FiniteSets, TLC

(***************************************************************************)
(* Bounds of the model.                                                    *)
(***************************************************************************)
\* largest number of module entries (locations) handed to one scheduler run
MaxLocs == 3
\* largest positive maxWorkers argument tried
MaxW == 2
\* largest number of modules handed to CheckRepos, and largest batchSize
MaxRepos == 3
\* batch requests after which a CheckRepos loop is no longer followed
MaxRequests == 4
\* largest batch handed to one queryBatch
MaxBatch == 2
\* largest number of require entries in the go.mod that main reads
MaxMods == 3
\* largest number of "/"-separated segments of a path given to extractGitHub
MaxSegs == 4
\* largest number of <meta> tags in a vanity import page
MaxTags == 2
\* largest number of "parent child" lines of go mod graph
MaxEdges == 3
\* largest number of require entries behind one buildTree call
MaxTreeMods == 2
\* largest number of go.mod files a recursive run finds
MaxFiles == 2
MaxRerunLocs == 2
MaxPhaseFiles == 1
\* the calendar years calcDuration is given dates of
FirstYear == 2023
MaxYearSpan == 1

(***************************************************************************)
(* Program constants.                                                      *)
(***************************************************************************)
\* const maxWorkers = 20 of the cross-dataset schedulers
AcrossMaxWorkers == 20
\* default of the --workers flag, the batchSize main passes to CheckRepos
DefaultWorkers == 50

(***************************************************************************)
(* Generic helpers.                                                        *)
(***************************************************************************)
SeqsUpTo(S, n) == UNION {[1..k -> S] : k \in 0..n}

Range(s) == {s[i] : i \in DOMAIN s}

RECURSIVE Flatten(_)
Flatten(ss) == IF ss = <<>> THEN <<>> ELSE Head(ss) \o Flatten(Tail(ss))

(***************************************************************************)
(* Module entries (type Module) and extractGitHub.                         *)
(***************************************************************************)
HostDomain == "github.com"

\* strings.SplitN(path, "/", 4) on the segment sequence: at most 4 parts,
\* the 4th holding the unsplit remainder (kept as a sequence of segments).
SplitN4(path) ==
    IF Len(path) <= 4 THEN [i \in 1..Len(path) |-> <<path[i]>>]
    ELSE <<<<path[1]>>, <<path[2]>>, <<path[3]>>, SubSeq(path, 4, Len(path))>>

\* strings.HasPrefix(path, "github.com/"): first segment is the host and a
\* "/" follows it.
HasHostPrefix(path) == Len(path) >= 2 /\ path[1] = HostDomain

extractGitHub(path) ==
    IF ~HasHostPrefix(path) THEN [owner |-> "", repo |-> ""]
    ELSE LET parts == SplitN4(path)
         IN  IF Len(parts) < 3 THEN [owner |-> "", repo |-> ""]
             ELSE [owner |-> parts[2][1], repo |-> parts[3][1]]

\* Time values: 0 is the zero time.Time.
ZeroTime == 0

\* One Module as ParseGoMod builds it: Owner/Repo from extractGitHub, the
\* enrichment fields empty.
NewModule(path, version, direct) ==
    [Path |-> path, Version |-> version, Direct |-> direct,
     Owner |-> extractGitHub(path).owner, Repo |-> extractGitHub(path).repo,
     LatestVersion |-> "", SourceURL |-> "", VersionTime |-> ZeroTime,
     Deprecated |-> ""]

(***************************************************************************)
(* Inputs of the scheduler runs.                                           *)
(***************************************************************************)
\* one GitHub entry, one vanity path at two versions, a second vanity path
SchedModules == { NewModule(<<"github.com", "foo", "bar">>, "v1", TRUE),
                  NewModule(<<"gopkg.in", "yaml.v3">>, "v1", TRUE),
                  NewModule(<<"gopkg.in", "yaml.v3">>, "v2", FALSE),
                  NewModule(<<"golang.org", "x", "net">>, "v1", TRUE) }

Kinds == {"resolve", "enrich", "deprecate"}

\* one []Module for the single-dataset form, two moduleInfo for --recursive
SingleInputs == {<<a>> : a \in SeqsUpTo(SchedModules, MaxLocs)}

AcrossInputs ==
    {d \in {<<a, b>> : a \in SeqsUpTo(SchedModules, MaxLocs),
                       b \in SeqsUpTo(SchedModules, MaxLocs)} :
        Len(d[1]) + Len(d[2]) <= MaxLocs}

\* the maxWorkers arguments a caller passes to the single-dataset form
WorkerArgs == (-1)..MaxW

(***************************************************************************)
(* State.                                                                  *)
(***************************************************************************)
VARIABLES
    form,          \* "single" or "across": which scheduler family runs
    kind,          \* "resolve", "enrich" or "deprecate"
    maxWorkers,    \* capacity asked for the semaphore channel
    input,         \* the datasets as handed to the scheduler (never changes)
    modules,       \* the datasets, mutated in place by the fan-out
    keyLocations,  \* key -> sequence of <<dataset, index>> locations
    tasks,         \* the goroutines the dispatch loop is to start
    wpc,           \* started goroutine -> "acquire" | "lookup" | "done"
    sem,           \* number of tokens in the semaphore channel
    wg,            \* sync.WaitGroup counter
    results,       \* buffered result channel, oldest first
    closed,        \* the result channel has been closed
    count,         \* results consumed by the fan-out (resolved / count)
    mpc,           \* calling goroutine: "collect" | "spawn" | "wait" | "fanout" | "returned" | "panic"
    calls          \* key -> number of lookups started for it

schedVars == <<form, kind, maxWorkers, input, modules, keyLocations, tasks,
               wpc, sem, wg, results, closed, count, mpc, calls>>

\* CheckRepos
VARIABLES
    crModules,     \* the modules argument
    batchSize,     \* the batchSize argument
    crPc,          \* "start" | "loop" | "returned" | "panic"
    crI,           \* loop index i
    crResults,     \* the accumulated []RepoStatus
    crErr,         \* "" while no error; else the error returned
    crRequests     \* every batch request issued, with its outcome, oldest first

crVars == <<crModules, batchSize, crPc, crI, crResults, crErr, crRequests>>

\* one successful queryBatch
VARIABLES
    qbModules,     \* the batch
    qbQuery,       \* the aliased sub-queries of the request
    qbResp,        \* the decoded response envelope
    qbOut,         \* the []RepoStatus returned
    qbPc           \* "build" | "sent" | "parse" | "returned"

qbVars == <<qbModules, qbQuery, qbResp, qbOut, qbPc>>

\* main: ParseGoMod, FilterGitHub, CheckRepos
VARIABLES
    allModules,      \* what ParseGoMod returned
    directOnly,      \* the --direct-only flag
    mainPc,          \* "filter" | "query" | "checkrepos" | "exit" | "idle"
    fgI,             \* entries of allModules the FilterGitHub loop has visited
    seen,            \* FilterGitHub's seen map (its true keys)
    github,          \* FilterGitHub's github result
    nonGitHubCount   \* FilterGitHub's nonGitHubCount result

mainVars == <<allModules, directOnly, mainPc, fgI, seen, github, nonGitHubCount>>

\* one call of extractGitHub
VARIABLES
    egPath,          \* the path argument, as its "/"-separated segments
    egOut,           \* the (owner, repo) returned
    egPc             \* "call" | "returned"

egVars == <<egPath, egOut, egPc>>

\* one call of resolveOne
VARIABLES
    roPath,          \* kind of modulePath: "valid" | "unescapable" | "unbuildable"
    roPc,            \* "proxy" | "proxySent" | "proxyDone" | "metaSent" | "returned"
    roProxyResp,     \* what the proxy request came to
    roProxyId,       \* what resolveViaProxy returned
    roMetaResp,      \* what the ?go-get=1 request came to
    roRequests,      \* the HTTP requests handed to client.Do, oldest first
    roOut            \* the (owner, repo) resolveOne returned

roVars == <<roPath, roPc, roProxyResp, roProxyId, roMetaResp, roRequests, roOut>>

\* one call of buildTree
VARIABLES
    tResults,        \* the results argument: []RepoStatus
    tAllModules,     \* the allModules argument
    tGraph,          \* the graph argument: key -> children, as parseModGraph builds it
    tArchivedPaths,  \* the archivedPaths map (its true keys)
    tRootKey,        \* rootKey
    tEntries,        \* the entries returned
    tPc              \* "lookups" | "root" | "entries" | "returned"

treeVars == <<tResults, tAllModules, tGraph, tArchivedPaths, tRootKey, tEntries, tPc>>

\* one top-level call of findArchivedTransitive, call by call
VARIABLES
    ftGraph,         \* the graph argument
    ftArchived,      \* the archivedPaths argument (its true keys)
    ftStart,         \* the node argument of the top-level call
    ftStack,         \* the active calls, innermost last
    ftVisited,       \* the visited map shared by the calls (its true keys)
    ftExpanded,      \* node -> number of times its children were walked
    ftCalls,         \* calls of findArchivedTransitive made so far
    ftOut,           \* the slice the top-level call returned
    ftPc             \* "running" | "returned"

ftVars == <<ftGraph, ftArchived, ftStart, ftStack, ftVisited, ftExpanded,
            ftCalls, ftOut, ftPc>>

\* one call of runRecursive
VARIABLES
    rrWalkErr,       \* findGoModFiles returned an error
    rrFiles,         \* what ParseGoMod returns for each go.mod path found
    rrDirectOnly,    \* cfg.directOnly
    rrWorkers,       \* cfg.workers
    rrModules,       \* the []moduleInfo
    rrI,             \* moduleInfo entries the filter loop has visited
    rrGlobalSeen,    \* globalSeen (its true keys)
    rrAllGitHub,     \* allGitHub
    rrOut,           \* applyStatus's result for each moduleInfo, in order
    rrExit,          \* the exit code returned, NoExit before the return
    rrPc             \* "find" | "parse" | "filter" | "query" | "checkrepos" | "exit"

\* the phases of runRecursive
VARIABLES
    rrResolveMode,   \* cfg.resolveMode
    rrDeprecatedMode,\* cfg.deprecatedMode
    rrLog            \* the calls of the phase entry points and their returns

phVars == <<rrResolveMode, rrDeprecatedMode, rrLog>>

rrVars == <<rrWalkErr, rrFiles, rrDirectOnly, rrWorkers, rrModules, rrI,
            rrGlobalSeen, rrAllGitHub, rrOut, rrExit, rrPc, phVars>>

\* repeated scheduler runs against one lookup service
VARIABLES
    lookup,          \* the lookup service: any answer per call, or a fixed
                     \* answer for each (path, version) it is asked about
    runNo,           \* 1, 2: runs on the input; 3: run on the output of run 1
    firstOut         \* the datasets as the first run left them

rerunVars == <<lookup, runNo, firstOut>>

\* calcDuration
VARIABLES
    cdArchivedAt,    \* the date of archivedAt: [year, month, day]
    cdEndDate,       \* the date of endDate
    cdOut,           \* the result: [years, months, days]
    cdPc             \* "call", "returned"

cdVars == <<cdArchivedAt, cdEndDate, cdOut, cdPc>>

vars == <<schedVars, crVars, qbVars, mainVars, egVars, roVars, treeVars, ftVars,
          rrVars, rerunVars, cdVars>>

\* what the steps of one component leave alone (main drives CheckRepos)
othersThanSched ==
    <<crVars, qbVars, mainVars, egVars, roVars, treeVars, ftVars, rrVars, rerunVars, cdVars>>

othersThanQueryBatch ==
    <<schedVars, crVars, mainVars, egVars, roVars, treeVars, ftVars, rrVars,
     rerunVars, cdVars>>

\* (the callers of CheckRepos wait while it runs)
othersThanCheckRepos ==
    <<schedVars, qbVars, mainVars, egVars, roVars, treeVars, ftVars, rrVars,
     rerunVars, cdVars>>

othersThanMain == <<schedVars, qbVars, egVars, roVars, treeVars, ftVars, rrVars,
     rerunVars, cdVars>>

othersThanExtract ==
    <<schedVars, crVars, qbVars, mainVars, roVars, treeVars, ftVars, rrVars,
     rerunVars, cdVars>>

othersThanResolveOne ==
    <<schedVars, crVars, qbVars, mainVars, egVars, treeVars, ftVars, rrVars,
     rerunVars, cdVars>>

othersThanTree ==
    <<schedVars, crVars, qbVars, mainVars, egVars, roVars, ftVars, rrVars,
     rerunVars, cdVars>>

othersThanTraverse ==
    <<schedVars, crVars, qbVars, mainVars, egVars, roVars, treeVars, rrVars,
     rerunVars, cdVars>>

othersThanRecursive ==
    <<schedVars, qbVars, mainVars, egVars, roVars, treeVars, ftVars, rerunVars, cdVars>>

othersThanDuration ==
    <<schedVars, crVars, qbVars, mainVars, egVars, roVars, treeVars, ftVars,
      rrVars, rerunVars>>

(***************************************************************************)
(* Enrichment schedulers.                                                  *)
(***************************************************************************)
\* all <<dataset, index>> locations in scan order (outer loop i, inner j)
AllLocations(data) ==
    Flatten([i \in 1..Len(data) |-> [j \in 1..Len(data[i]) |-> <<i, j>>]])

At(data, loc) == data[loc[1]][loc[2]]

\* which entries a scheduler collects: the Owner == "" test of the resolve
\* and enrich schedulers; the deprecation schedulers take every entry
NeedsLookup(knd, m) == IF knd = "deprecate" THEN TRUE ELSE m.Owner = ""

\* the deduplication key of an entry
KeyOf(frm, knd, data, loc) ==
    IF frm = "single" THEN loc[2]
    ELSE IF knd = "resolve" THEN At(data, loc).Path
    ELSE [path |-> At(data, loc).Path, version |-> At(data, loc).Version]

\* indices / pathLocations / keyLocations built by the collection loop
CollectLocations(frm, knd, data) ==
    LET locs == SelectSeq(AllLocations(data), LAMBDA l : NeedsLookup(knd, At(data, l)))
        keys == {KeyOf(frm, knd, data, locs[n]) : n \in DOMAIN locs}
    IN  [k \in keys |-> SelectSeq(locs, LAMBDA l : KeyOf(frm, knd, data, l) = k)]

DispatchList_PerLocation(kl) ==
    UNION {{[key |-> k, n |-> j] : j \in 1..Len(kl[k])} : k \in DOMAIN kl}

\* the goroutines the dispatch loop starts: one per collected index, or one
\* per unique key of the location map (uniquePaths / items / range keyLocations)
DispatchList(kl) == {[key |-> k, n |-> 1] : k \in DOMAIN kl}

\* the items the dispatch loop may take next: slice order for the index
\* slice of the single-dataset form, any order for a range over a map
NextToSpawn(frm, pending) ==
    IF frm = "single"
    THEN {t \in pending : \A u \in pending : t.key <= u.key}
    ELSE pending

\* the early return "if len(indices) == 0"; CheckDeprecations has none
ReturnsEarly(frm, knd, kl) ==
    DOMAIN kl = {} /\ ~(frm = "single" /\ knd = "deprecate")

\* the empty/zero value a lookup returns on any failure
ZeroResult(knd) ==
    IF knd = "resolve" THEN [owner |-> "", repo |-> ""]
    ELSE IF knd = "enrich" THEN
        [latestVersion |-> "", sourceURL |-> "", versionTime |-> ZeroTime]
    ELSE [message |-> ""]

\* values one lookup can return
LookupResults(knd) ==
    IF knd = "resolve" THEN
        {ZeroResult(knd), [owner |-> "up", repo |-> "lib"]}
    ELSE IF knd = "enrich" THEN
        {ZeroResult(knd),
         [latestVersion |-> "v9", sourceURL |-> "https://up/lib", versionTime |-> 7]}
    ELSE {ZeroResult(knd), [message |-> "use v2"]}

\* the service answers anything on each call (any failure included)
AnyLookup == [det |-> FALSE, fn |-> <<>>]

\* what a lookup is a function of: the module path for resolveOne, path and
\* version for fetchLatestInfo + fetchVersionInfo and fetchGoModDeprecation
LookupArg(knd, m) ==
    IF knd = "resolve" THEN [path |-> m.Path, version |-> ""]
    ELSE [path |-> m.Path, version |-> m.Version]

TaskArg_Shared(frm, knd, data, kl, t) ==
    LookupArg(knd, At(data, Head(kl[CHOOSE k \in DOMAIN kl : TRUE])))

\* the entry a goroutine looks up: modules[i], or the key it was handed
TaskArg(frm, knd, data, kl, t) == LookupArg(knd, At(data, Head(kl[t.key])))

\* the values the lookup of one goroutine can return
LookupAnswers(svc, knd, arg) ==
    IF svc.det THEN {svc.fn[arg]} ELSE LookupResults(knd)

\* whether the goroutine sends its result on the channel
Posts(knd, v) ==
    IF knd = "resolve" THEN v.owner # ""
    ELSE IF knd = "enrich" THEN TRUE
    ELSE v.message # ""

WriteResult_Append(knd, m, v) ==
    IF knd = "resolve" THEN [m EXCEPT !.Owner = v.owner, !.Repo = v.repo]
    ELSE IF knd = "enrich" THEN
        [m EXCEPT !.LatestVersion = v.latestVersion, !.SourceURL = v.sourceURL,
                  !.VersionTime = v.versionTime]
    ELSE [m EXCEPT !.Deprecated = @ \o v.message]

\* the field writes of the fan-out loop for one location
WriteResult(knd, m, v) ==
    IF knd = "resolve" THEN [m EXCEPT !.Owner = v.owner, !.Repo = v.repo]
    ELSE IF knd = "enrich" THEN
        [m EXCEPT !.LatestVersion = v.latestVersion, !.SourceURL = v.sourceURL,
                  !.VersionTime = v.versionTime]
    ELSE [m EXCEPT !.Deprecated = v.message]

FanOutTargets_FirstOnly(kl, key) == <<Head(kl[key])>>

\* the locations one result is written to
FanOutTargets(kl, key) == kl[key]

SemHasRoom_Unbounded(tokens, cap) == TRUE

\* a send on the semaphore channel proceeds only while the buffer has room;
\* with capacity 0 there is never a receiver waiting, so it never proceeds
SemHasRoom(tokens, cap) == tokens < cap

WaitReturns_Early(counter) == TRUE

\* wg.Wait() returns when the counter is zero
WaitReturns(counter) == counter = 0

InFlight == {t \in DOMAIN wpc : wpc[t] = "lookup"}

SchedInit ==
    /\ form \in {"single", "across"}
    /\ kind \in Kinds
    /\ maxWorkers \in IF form = "single" THEN WorkerArgs ELSE {AcrossMaxWorkers}
    /\ input \in IF form = "single" THEN SingleInputs ELSE AcrossInputs
    /\ modules = input
    /\ keyLocations = <<>>
    /\ tasks = {}
    /\ wpc = <<>>
    /\ sem = 0
    /\ wg = 0
    /\ results = <<>>
    /\ closed = FALSE
    /\ count = 0
    /\ mpc = "collect"
    /\ calls = <<>>
    /\ lookup = AnyLookup
    /\ runNo = 1
    /\ firstOut = <<>>

SchedIdle ==
    /\ form = "single"
    /\ kind = "resolve"
    /\ maxWorkers = 1
    /\ input = <<<<>>>>
    /\ modules = <<<<>>>>
    /\ keyLocations = <<>>
    /\ tasks = {}
    /\ wpc = <<>>
    /\ sem = 0
    /\ wg = 0
    /\ results = <<>>
    /\ closed = FALSE
    /\ count = 0
    /\ mpc = "returned"
    /\ calls = <<>>
    /\ lookup = AnyLookup
    /\ runNo = 1
    /\ firstOut = <<>>

\* the sequential prologue: collect the locations, return early when there
\* is nothing to do, make the result and semaphore channels
Collect ==
    /\ UNCHANGED othersThanSched
    /\ mpc = "collect"
    /\ LET kl == CollectLocations(form, kind, modules)
       IN  /\ keyLocations' = kl
           /\ IF ReturnsEarly(form, kind, kl) THEN
                  /\ mpc' = "returned"
                  /\ tasks' = {}
              ELSE IF maxWorkers < 0 THEN
                  \* make(chan struct{}, maxWorkers) panics on a negative size
                  /\ mpc' = "panic"
                  /\ tasks' = {}
              ELSE
                  /\ tasks' = DispatchList(kl)
                  /\ mpc' = IF DOMAIN kl = {} THEN "wait" ELSE "spawn"
    /\ UNCHANGED <<form, kind, maxWorkers, input, modules, wpc,
                   sem, wg, results, closed, count, calls>>

\* one iteration of the dispatch loop: wg.Add(1); go func(...)
Spawn ==
    /\ UNCHANGED othersThanSched
    /\ mpc = "spawn"
    /\ \E t \in NextToSpawn(form, tasks \ DOMAIN wpc) :
          /\ wpc' = wpc @@ (t :> "acquire")
          /\ mpc' = IF tasks \ DOMAIN wpc = {t} THEN "wait" ELSE "spawn"
    /\ wg' = wg + 1
    /\ UNCHANGED <<form, kind, maxWorkers, input, modules, keyLocations, tasks,
                   sem, results, closed, count, calls>>

\* sem <- struct{}{} succeeds and the lookup call starts
Acquire(t) ==
    /\ UNCHANGED othersThanSched
    /\ wpc[t] = "acquire"
    /\ SemHasRoom(sem, maxWorkers)
    /\ sem' = sem + 1
    /\ wpc' = [wpc EXCEPT ![t] = "lookup"]
    /\ calls' = IF t.key \in DOMAIN calls
                THEN [calls EXCEPT ![t.key] = @ + 1]
                ELSE calls @@ (t.key :> 1)
    /\ UNCHANGED <<form, kind, maxWorkers, input, modules, keyLocations, tasks,
                   wg, results, closed, count, mpc>>

\* The lookup (resolveOne, fetchLatestInfo + fetchVersionInfo,
\* fetchGoModDeprecation) returns and the goroutine runs to its end without
\* blocking again: it sends what it has to report on the result channel
\* (whose buffer holds one slot per goroutine), then the deferred calls
\* take the token back (<-sem) and signal the wait group (wg.Done()).
LookupReturn(t) ==
    /\ UNCHANGED othersThanSched
    /\ wpc[t] = "lookup"
    /\ \E v \in LookupAnswers(lookup, kind,
                             TaskArg(form, kind, modules, keyLocations, t)) :
          IF Posts(kind, v)
          THEN /\ Len(results) < Cardinality(tasks)
               /\ results' = Append(results, [key |-> t.key, val |-> v])
          ELSE results' = results
    /\ sem' = sem - 1
    /\ wg' = wg - 1
    /\ wpc' = [wpc EXCEPT ![t] = "done"]
    /\ UNCHANGED <<form, kind, maxWorkers, input, modules, keyLocations, tasks,
                   closed, count, mpc, calls>>

\* wg.Wait(); close(results)
WaitClose ==
    /\ UNCHANGED othersThanSched
    /\ mpc = "wait"
    /\ WaitReturns(wg)
    /\ closed' = TRUE
    /\ mpc' = "fanout"
    /\ UNCHANGED <<form, kind, maxWorkers, input, modules, keyLocations, tasks,
                   wpc, sem, wg, results, count, calls>>

RECURSIVE WriteAll(_, _, _, _)
WriteAll(data, locs, knd, v) ==
    IF locs = <<>> THEN data
    ELSE LET l == Head(locs)
         IN  WriteAll([data EXCEPT ![l[1]][l[2]] = WriteResult(knd, @, v)],
                      Tail(locs), knd, v)

\* one iteration of "for res := range results"
FanOut ==
    /\ UNCHANGED othersThanSched
    /\ mpc = "fanout"
    /\ results # <<>>
    /\ LET res == Head(results)
       IN  modules' = WriteAll(modules, FanOutTargets(keyLocations, res.key), kind, res.val)
    /\ results' = Tail(results)
    /\ count' = count + 1
    /\ UNCHANGED <<form, kind, maxWorkers, input, keyLocations, tasks,
                   wpc, sem, wg, closed, mpc, calls>>

\* the range loop ends on the closed, drained channel; the function returns
Return ==
    /\ UNCHANGED othersThanSched
    /\ mpc = "fanout"
    /\ results = <<>>
    /\ mpc' = "returned"
    /\ UNCHANGED <<form, kind, maxWorkers, input, modules, keyLocations, tasks,
                   wpc, sem, wg, results, closed, count, calls>>

SchedNext ==
    \/ Collect
    \/ Spawn
    \/ \E t \in DOMAIN wpc : Acquire(t)
    \/ \E t \in DOMAIN wpc : LookupReturn(t)
    \/ WaitClose
    \/ FanOut
    \/ Return


(***************************************************************************)
(* The same scheduler run again: twice on the same input, then once on the *)
(* output of the first run, against a service that answers each (path,     *)
(* version) the same way every time.                                       *)
(***************************************************************************)
\* what the entries of the datasets can be looked up by
LookupArgsOf(knd, data) ==
    {LookupArg(knd, At(data, l)) :
        l \in {AllLocations(data)[n] : n \in DOMAIN AllLocations(data)}}

\* the datasets of the repeated runs
RerunInputs(frm) ==
    {d \in IF frm = "single" THEN SingleInputs ELSE AcrossInputs :
        Len(AllLocations(d)) <= MaxRerunLocs}

RerunInit ==
    /\ form \in {"single", "across"}
    /\ kind \in Kinds
    /\ maxWorkers \in IF form = "single" THEN {1, MaxW} ELSE {AcrossMaxWorkers}
    /\ input \in RerunInputs(form)
    /\ modules = input
    /\ keyLocations = <<>>
    /\ tasks = {}
    /\ wpc = <<>>
    /\ sem = 0
    /\ wg = 0
    /\ results = <<>>
    /\ closed = FALSE
    /\ count = 0
    /\ mpc = "collect"
    /\ calls = <<>>
    /\ lookup \in {[det |-> TRUE, fn |-> f] :
                      f \in [LookupArgsOf(kind, input) -> LookupResults(kind)]}
    /\ runNo = 1
    /\ firstOut = <<>>

\* the scheduler has returned and is called again
Rerun ==
    /\ UNCHANGED <<crVars, qbVars, mainVars, egVars, roVars, treeVars, ftVars, rrVars, cdVars>>
    /\ mpc = "returned"
    /\ runNo < 3
    /\ runNo' = runNo + 1
    /\ firstOut' = IF runNo = 1 THEN modules ELSE firstOut
    /\ input' = IF runNo = 1 THEN input ELSE firstOut
    /\ modules' = input'
    /\ keyLocations' = <<>>
    /\ tasks' = {}
    /\ wpc' = <<>>
    /\ sem' = 0
    /\ wg' = 0
    /\ results' = <<>>
    /\ closed' = FALSE
    /\ count' = 0
    /\ mpc' = "collect"
    /\ calls' = <<>>
    /\ UNCHANGED <<form, kind, maxWorkers, lookup>>

RerunNext == SchedNext \/ Rerun

(***************************************************************************)
(* Batch archival client: buildGraphQLQuery, parseGraphQLResponse,         *)
(* queryBatch, CheckRepos.                                                 *)
(***************************************************************************)
\* fmt.Sprintf("r%d", i) of buildGraphQLQuery, i counted from 0
QueryAlias(i) == "r" \o ToString(i)

ResponseAlias_OffByOne(i) == "r" \o ToString(i + 1)

\* fmt.Sprintf("r%d", i) of parseGraphQLResponse, i counted from 0
ResponseAlias(i) == "r" \o ToString(i)

\* the query text, as the list of its aliased repository(owner:, name:)
\* sub-queries
buildGraphQLQuery(mods) ==
    [n \in 1..Len(mods) |->
        [alias |-> QueryAlias(n - 1), owner |-> mods[n].Owner, name |-> mods[n].Repo]]

\* timestamps that time.Parse(time.RFC3339, s) accepts, with their instants
Stamps == [s \in {"2024-01-01T00:00:00Z", "2025-02-01T00:00:00Z"} |->
              IF s = "2024-01-01T00:00:00Z" THEN 1704067200 ELSE 1738368000]

\* time.Parse(time.RFC3339, s) with the error dropped: zero time on failure
ParseRFC3339(s) == IF s \in DOMAIN Stamps THEN Stamps[s] ELSE ZeroTime

\* a *repoData of the data map: a JSON null, or the three fields
NullData == [isNull |-> TRUE, isArchived |-> FALSE, archivedAt |-> "", pushedAt |-> ""]

RepoDataValues ==
    { NullData,
      [isNull |-> FALSE, isArchived |-> FALSE, archivedAt |-> "",
       pushedAt |-> "2025-02-01T00:00:00Z"],
      [isNull |-> FALSE, isArchived |-> TRUE, archivedAt |-> "2024-01-01T00:00:00Z",
       pushedAt |-> "not a date"],
      [isNull |-> FALSE, isArchived |-> TRUE, archivedAt |-> "yesterday",
       pushedAt |-> ""] }

\* errorAliases: first path element -> message, later errors overwriting
\* earlier ones; errors with an empty path are skipped
RECURSIVE ErrorAliases(_)
ErrorAliases(errors) ==
    IF errors = <<>> THEN <<>>
    ELSE LET n    == Len(errors)
             e    == errors[n]
             rest == ErrorAliases(SubSeq(errors, 1, n - 1))
         IN  IF Len(e.path) = 0 THEN rest
             ELSE IF e.path[1] \in DOMAIN rest
                  THEN [rest EXCEPT ![e.path[1]] = e.message]
                  ELSE rest @@ (e.path[1] :> e.message)

DefaultNotFound == "repository not found"

NewRepoStatus(m) ==
    [Module |-> m, IsArchived |-> FALSE, ArchivedAt |-> ZeroTime,
     PushedAt |-> ZeroTime, NotFound |-> FALSE, Error |-> ""]

StatusFor_DataFirst(m, alias, errorAliases, data) ==
    IF alias \in DOMAIN data /\ ~data[alias].isNull THEN
        [NewRepoStatus(m) EXCEPT
            !.IsArchived = data[alias].isArchived,
            !.ArchivedAt = ParseRFC3339(data[alias].archivedAt),
            !.PushedAt = ParseRFC3339(data[alias].pushedAt)]
    ELSE IF alias \in DOMAIN errorAliases THEN
        [NewRepoStatus(m) EXCEPT !.NotFound = TRUE, !.Error = errorAliases[alias]]
    ELSE
        [NewRepoStatus(m) EXCEPT !.NotFound = TRUE, !.Error = DefaultNotFound]

\* the body of the result loop for one module
StatusFor(m, alias, errorAliases, data) ==
    IF alias \in DOMAIN errorAliases THEN
        [NewRepoStatus(m) EXCEPT !.NotFound = TRUE, !.Error = errorAliases[alias]]
    ELSE IF alias \in DOMAIN data /\ ~data[alias].isNull THEN
        [NewRepoStatus(m) EXCEPT
            !.IsArchived = data[alias].isArchived,
            !.ArchivedAt = IF data[alias].archivedAt # ""
                           THEN ParseRFC3339(data[alias].archivedAt) ELSE ZeroTime,
            !.PushedAt = IF data[alias].pushedAt # ""
                         THEN ParseRFC3339(data[alias].pushedAt) ELSE ZeroTime]
    ELSE
        [NewRepoStatus(m) EXCEPT !.NotFound = TRUE, !.Error = DefaultNotFound]

parseGraphQLResponse(gqlResp, mods) ==
    LET errorAliases == ErrorAliases(gqlResp.errors)
    IN  [n \in 1..Len(mods) |->
            StatusFor(mods[n], ResponseAlias(n - 1), errorAliases, gqlResp.data)]

\* the ways one queryBatch can fail: client.Do error, body read error,
\* status other than 200, body that does not unmarshal
TransportFailures == {"request failed", "reading response", "status", "parsing response"}

(***************************************************************************)
(* One successful queryBatch, with any response envelope.                  *)
(***************************************************************************)
QBModuleValues == { NewModule(<<"github.com", "foo", "bar">>, "v1", TRUE),
                    NewModule(<<"github.com", "baz", "qux">>, "v2", FALSE) }

\* aliases a response may mention: those of the batch and one beyond it
QBAliases == {ResponseAlias(i) : i \in 0..MaxBatch}

QBErrors == [message : {"Could not resolve to a Repository", "denied"},
             path : {<<>>} \cup {<<a>> : a \in QBAliases}]

QBResponses ==
    [data : UNION {[A -> RepoDataValues] : A \in SUBSET QBAliases},
     errors : SeqsUpTo(QBErrors, 2)]

QBInit ==
    /\ qbModules \in SeqsUpTo(QBModuleValues, MaxBatch)
    /\ qbQuery = <<>>
    /\ qbResp = [data |-> <<>>, errors |-> <<>>]
    /\ qbOut = <<>>
    /\ qbPc = "build"

QBIdle ==
    /\ qbModules = <<>>
    /\ qbQuery = <<>>
    /\ qbResp = [data |-> <<>>, errors |-> <<>>]
    /\ qbOut = <<>>
    /\ qbPc = "returned"

\* query := buildGraphQLQuery(modules); the request is posted
QBSend ==
    /\ UNCHANGED othersThanQueryBatch
    /\ qbPc = "build"
    /\ qbQuery' = buildGraphQLQuery(qbModules)
    /\ qbPc' = "sent"
    /\ UNCHANGED <<qbModules, qbResp, qbOut>>

\* a 200 response arrives and unmarshals into gqlResp
QBReceive ==
    /\ UNCHANGED othersThanQueryBatch
    /\ qbPc = "sent"
    /\ qbResp' \in QBResponses
    /\ qbPc' = "parse"
    /\ UNCHANGED <<qbModules, qbQuery, qbOut>>

\* return parseGraphQLResponse(gqlResp, modules), nil
QBParse ==
    /\ UNCHANGED othersThanQueryBatch
    /\ qbPc = "parse"
    /\ qbOut' = parseGraphQLResponse(qbResp, qbModules)
    /\ qbPc' = "returned"
    /\ UNCHANGED <<qbModules, qbQuery, qbResp>>

QBNext == QBSend \/ QBReceive \/ QBParse

(***************************************************************************)
(* CheckRepos: the batch loop.                                             *)
(***************************************************************************)
\* two paths of one repository and a second repository
CRModuleValues == { NewModule(<<"github.com", "foo", "bar">>, "v1", TRUE),
                    NewModule(<<"github.com", "foo", "bar", "v2">>, "v2", TRUE),
                    NewModule(<<"github.com", "baz", "qux">>, "v1", FALSE) }

\* the batchSize values tried (--workers accepts any int)
BatchSizes == (-1)..MaxRepos

\* what the API answers for one alias of a query
AliasAnswers == {"archived", "live", "missing", "denied"}

\* the response envelope in which the k-th alias of the query gets answers[k]
AnswerEnvelope(query, answers) ==
    LET present == {k \in DOMAIN query : answers[k] # "missing"}
        denied  == SelectSeq([k \in DOMAIN query |-> k], LAMBDA k : answers[k] = "denied")
        entry(k) == IF answers[k] = "denied" THEN NullData
                    ELSE IF answers[k] = "archived"
                    THEN [isNull |-> FALSE, isArchived |-> TRUE,
                          archivedAt |-> "2024-01-01T00:00:00Z",
                          pushedAt |-> "2024-01-01T00:00:00Z"]
                    ELSE [isNull |-> FALSE, isArchived |-> FALSE, archivedAt |-> "",
                          pushedAt |-> "2025-02-01T00:00:00Z"]
    IN  [data |-> [a \in {query[k].alias : k \in present} |->
                      entry(CHOOSE k \in present : query[k].alias = a)],
         errors |-> [j \in 1..Len(denied) |->
                      [message |-> "Could not resolve to a Repository",
                       path |-> <<query[denied[j]].alias>>]]]

\* end := i + batchSize; if end > len(modules) { end = len(modules) }
BatchEnd(i, size, n) == IF i + size > n THEN n ELSE i + size

AppendStatuses_Overwrite(acc, statuses) == statuses

\* results = append(results, statuses...)
AppendStatuses(acc, statuses) == acc \o statuses

PcAfterBatchError_Continue == "loop"

\* if err != nil { return nil, ... }
PcAfterBatchError == "returned"

CRInit ==
    /\ crModules \in SeqsUpTo(CRModuleValues, MaxRepos)
    /\ batchSize \in BatchSizes
    /\ crPc = "start"
    /\ crI = 0
    /\ crResults = <<>>
    /\ crErr = ""
    /\ crRequests = <<>>

CRIdle ==
    /\ crModules = <<>>
    /\ batchSize = 0
    /\ crPc = "returned"
    /\ crI = 0
    /\ crResults = <<>>
    /\ crErr = ""
    /\ crRequests = <<>>

\* the empty-input return, else getGHToken and the first loop test
CRStart ==
    /\ UNCHANGED othersThanCheckRepos
    /\ crPc = "start"
    /\ IF Len(crModules) = 0
       THEN crPc' = "returned" /\ crErr' = ""
       ELSE \E tokenOK \in BOOLEAN :
              IF tokenOK THEN crPc' = "loop" /\ crErr' = ""
              ELSE crPc' = "returned" /\ crErr' = "failed to get GitHub token"
    /\ UNCHANGED <<crModules, batchSize, crI, crResults, crRequests>>

\* one iteration of the batch loop, queryBatch included
CRBatch ==
    /\ UNCHANGED othersThanCheckRepos
    /\ crPc = "loop"
    /\ Len(crRequests) < MaxRequests
    /\ LET end == BatchEnd(crI, batchSize, Len(crModules))
       IN  IF end < crI THEN
               \* modules[i:end] with end < i: slice bounds out of range
               /\ crPc' = "panic"
               /\ UNCHANGED <<crI, crResults, crErr, crRequests>>
           ELSE
               LET batch == SubSeq(crModules, crI + 1, end)
                   query == buildGraphQLQuery(batch)
               IN  \/ \E f \in TransportFailures :
                        /\ crRequests' = Append(crRequests, [query |-> query, outcome |-> f])
                        /\ crResults' = <<>>
                        /\ crErr' = f
                        /\ crPc' = PcAfterBatchError
                        /\ crI' = crI
                   \/ \E answers \in [DOMAIN query -> AliasAnswers] :
                        /\ crRequests' = Append(crRequests, [query |-> query, outcome |-> "ok"])
                        /\ crResults' = AppendStatuses(crResults,
                               parseGraphQLResponse(AnswerEnvelope(query, answers), batch))
                        /\ crErr' = crErr
                        /\ crI' = crI + batchSize
                        /\ crPc' = IF crI + batchSize < Len(crModules)
                                   THEN "loop" ELSE "returned"
    /\ UNCHANGED <<crModules, batchSize>>

CRNext == CRStart \/ CRBatch

(***************************************************************************)
(* main: FilterGitHub over the parsed go.mod, then CheckRepos.             *)
(***************************************************************************)
\* an entry whose Owner/Repo a vanity resolution has filled in
Resolved(m, owner, repo) == [m EXCEPT !.Owner = owner, !.Repo = repo]

\* require entries: two paths of one repository, a second repository, a
\* non-GitHub path (direct and indirect), a vanity path resolved to the
\* first repository, and github.com paths with an empty owner segment and
\* with an empty repo segment
MainModuleValues ==
    { NewModule(<<"github.com", "foo", "bar">>, "v1", TRUE),
      NewModule(<<"github.com", "foo", "bar", "v2">>, "v2", FALSE),
      NewModule(<<"github.com", "baz", "qux">>, "v1", FALSE),
      NewModule(<<"golang.org", "x", "net">>, "v1", TRUE),
      NewModule(<<"golang.org", "x", "net">>, "v2", FALSE),
      Resolved(NewModule(<<"example.org", "bar">>, "v3", TRUE), "foo", "bar"),
      NewModule(<<"github.com", "", "bar">>, "v1", TRUE),
      NewModule(<<"github.com", "foo", "">>, "v1", TRUE) }

\* the --workers values tried: the default and single-module batches
WorkersFlags == {1, DefaultWorkers}

SkippedByDirectOnly(m, dOnly) == dOnly /\ ~m.Direct

IsNonGitHub_BothEmpty(m) == m.Owner = "" /\ m.Repo = ""

\* if m.Owner == ""
IsNonGitHub(m) == m.Owner = ""

IdentityKey_WithVersion(m) == m.Owner \o "/" \o m.Repo \o "@" \o m.Version

\* key := m.Owner + "/" + m.Repo
IdentityKey(m) == m.Owner \o "/" \o m.Repo

MainInit ==
    /\ allModules \in SeqsUpTo(MainModuleValues, MaxMods)
    /\ directOnly \in BOOLEAN
    /\ mainPc = "filter"
    /\ fgI = 0
    /\ seen = {}
    /\ github = <<>>
    /\ nonGitHubCount = 0

MainIdle ==
    /\ allModules = <<>>
    /\ directOnly = FALSE
    /\ mainPc = "idle"
    /\ fgI = 0
    /\ seen = {}
    /\ github = <<>>
    /\ nonGitHubCount = 0

\* one iteration of FilterGitHub's loop over modules
FilterStep ==
    /\ UNCHANGED othersThanMain
    /\ mainPc = "filter"
    /\ fgI < Len(allModules)
    /\ LET m == allModules[fgI + 1]
       IN  IF SkippedByDirectOnly(m, directOnly) THEN
               UNCHANGED <<seen, github, nonGitHubCount>>
           ELSE IF IsNonGitHub(m) THEN
               /\ nonGitHubCount' = nonGitHubCount + 1
               /\ UNCHANGED <<seen, github>>
           ELSE IF IdentityKey(m) \in seen THEN
               UNCHANGED <<seen, github, nonGitHubCount>>
           ELSE
               /\ seen' = seen \cup {IdentityKey(m)}
               /\ github' = Append(github, m)
               /\ UNCHANGED nonGitHubCount
    /\ fgI' = fgI + 1
    /\ UNCHANGED <<allModules, directOnly, mainPc, crVars>>

\* FilterGitHub returns github, nonGitHubCount
FilterReturn ==
    /\ UNCHANGED othersThanMain
    /\ mainPc = "filter"
    /\ fgI = Len(allModules)
    /\ mainPc' = "query"
    /\ UNCHANGED <<allModules, directOnly, fgI, seen, github, nonGitHubCount, crVars>>

\* "No GitHub modules found": exit; else CheckRepos(githubModules, *workers)
MainQuery ==
    /\ UNCHANGED othersThanMain
    /\ mainPc = "query"
    /\ IF Len(github) = 0 THEN
           /\ mainPc' = "exit"
           /\ UNCHANGED crVars
       ELSE
           /\ mainPc' = "checkrepos"
           /\ crModules' = github
           /\ batchSize' \in WorkersFlags
           /\ crPc' = "start"
           /\ crI' = 0
           /\ crResults' = <<>>
           /\ crErr' = ""
           /\ crRequests' = <<>>
    /\ UNCHANGED <<allModules, directOnly, fgI, seen, github, nonGitHubCount>>

MainCheckRepos ==
    /\ mainPc = "checkrepos"
    /\ CRNext

MainNext ==
    \/ FilterStep
    \/ FilterReturn
    \/ MainQuery
    \/ MainCheckRepos

(***************************************************************************)
(* extractGitHub as a call: every path of up to MaxSegs segments.          *)
(***************************************************************************)
\* segments a path is made of; "" is the empty segment of "a//b" and "a/"
Segments == {"github.com", "notgithub.com", "", "foo", "bar"}

\* strings.SplitN never returns an empty slice: a path has at least one segment
PathValues == UNION {[1..k -> Segments] : k \in 1..MaxSegs}

ExtractInit ==
    /\ egPath \in PathValues
    /\ egOut = [owner |-> "", repo |-> ""]
    /\ egPc = "call"

ExtractIdle ==
    /\ egPath = <<"">>
    /\ egOut = [owner |-> "", repo |-> ""]
    /\ egPc = "returned"

ExtractCall ==
    /\ UNCHANGED othersThanExtract
    /\ egPc = "call"
    /\ egOut' = extractGitHub(egPath)
    /\ egPc' = "returned"
    /\ UNCHANGED egPath

ExtractNext == ExtractCall

(***************************************************************************)
(* resolveOne: the module proxy first, then the ?go-get=1 meta tags.       *)
(***************************************************************************)
\* a URL-like string: whether "scheme://" precedes it, and the
\* "/"-separated segments of what follows
URL(scheme, rest) == [scheme |-> scheme, rest |-> rest]

\* the empty string
EmptyURL == URL(FALSE, <<"">>)

\* a run of white space inside a content attribute
Blank == URL(FALSE, <<" ">>)

EmptyIdentity == [owner |-> "", repo |-> ""]

\* strings.TrimSuffix(s, ".git"): only the end of the last segment can match
GitSuffixed == [seg \in {"repo.git", ".git"} |-> IF seg = "repo.git" THEN "repo" ELSE ""]

TrimSuffixGit(segs) ==
    LET last == segs[Len(segs)]
    IN  IF last \in DOMAIN GitSuffixed
        THEN [segs EXCEPT ![Len(segs)] = GitSuffixed[last]]
        ELSE segs

\* strings.TrimRight(s, "/"): trailing empty segments go; "" stays <<"">>
RECURSIVE TrimRightSlash(_)
TrimRightSlash(segs) ==
    IF Len(segs) > 1 /\ segs[Len(segs)] = ""
    THEN TrimRightSlash(SubSeq(segs, 1, Len(segs) - 1))
    ELSE segs

extractGitHubFromURL(rawURL) ==
    IF rawURL = EmptyURL THEN EmptyIdentity
    ELSE LET s == rawURL.rest
         IN  IF ~HasHostPrefix(s) THEN EmptyIdentity
             ELSE LET parts == TrimRightSlash(TrimSuffixGit(Tail(s)))
                  IN  IF Len(parts) < 2 \/ parts[1] = "" \/ parts[2] = ""
                      THEN EmptyIdentity
                      ELSE [owner |-> parts[1], repo |-> parts[2]]

\* URLs a proxy origin or a meta tag may carry
URLValues ==
    { URL(TRUE, <<"github.com", "owner", "repo">>),
      URL(FALSE, <<"github.com", "owner", "repo.git">>),
      URL(TRUE, <<"github.com", "other", "lib", "">>),
      URL(TRUE, <<"go.googlesource.com", "text">>),
      URL(TRUE, <<"github.com", "owner">>),
      URL(TRUE, <<"github.com", "", "repo">>) }

\* what the proxy request can come to: client.Do error, status # 200, body
\* read error, json.Unmarshal error, no Origin, or an Origin with its URL
ProxyOutcomes ==
    {[kind |-> k, url |-> EmptyURL] : k \in {"error", "status", "read", "json", "noOrigin"}}
        \cup {[kind |-> "origin", url |-> u] : u \in URLValues \cup {EmptyURL}}

\* the tail of resolveViaProxy, from the response on
ProxyIdentity(outcome) ==
    IF outcome.kind = "origin" /\ outcome.url # EmptyURL
    THEN extractGitHubFromURL(outcome.url)
    ELSE EmptyIdentity

\* content attributes of a go-import / go-source tag, as white-space
\* separated tokens (<<>> is content="")
ImportContents ==
    {<<>>, <<Blank>>, <<URL(FALSE, <<"example.com", "pkg">>), URL(FALSE, <<"git">>)>>}
        \cup {<<URL(FALSE, <<"example.com", "pkg">>), URL(FALSE, <<"git">>), u>> : u \in URLValues}

SourceContents ==
    {<<>>} \cup {<<URL(FALSE, <<"example.com", "pkg">>), u>> : u \in URLValues}

MetaTags ==
    {[name |-> "go-import", content |-> c] : c \in ImportContents}
        \cup {[name |-> "go-source", content |-> c] : c \in SourceContents}

MetaOutcomes ==
    {[kind |-> k, body |-> <<>>] : k \in {"error", "status", "read"}}
        \cup {[kind |-> "ok", body |-> b] : b \in SeqsUpTo(MetaTags, MaxTags)}

\* parseMetaTags: for each name, the first content that is not ""
FirstContent(body, name) ==
    LET idx == {i \in DOMAIN body : body[i].name = name /\ body[i].content # <<>>}
    IN  IF idx = {} THEN <<>>
        ELSE body[CHOOSE i \in idx : \A j \in idx : i <= j].content

parseMetaTags(body) ==
    [goImport |-> FirstContent(body, "go-import"),
     goSource |-> FirstContent(body, "go-source")]

\* strings.Fields
Fields(content) == SelectSeq(content, LAMBDA f : f # Blank)

\* the first field of parts that extractGitHubFromURL accepts
FirstHostingField(parts) ==
    LET idx == {i \in DOMAIN parts : extractGitHubFromURL(parts[i]).owner # ""}
    IN  IF idx = {} THEN EmptyIdentity
        ELSE extractGitHubFromURL(parts[CHOOSE i \in idx : \A j \in idx : i <= j])

MetaIdentity_ImportOnly(outcome) ==
    IF outcome.kind # "ok" THEN EmptyIdentity
    ELSE LET tags == parseMetaTags(outcome.body)
             imp == Fields(tags.goImport)
         IN  IF Len(imp) >= 3 /\ extractGitHubFromURL(imp[3]).owner # ""
             THEN extractGitHubFromURL(imp[3])
             ELSE EmptyIdentity

\* the tail of resolveViaMeta, from the response on
MetaIdentity(outcome) ==
    IF outcome.kind # "ok" THEN EmptyIdentity
    ELSE LET tags == parseMetaTags(outcome.body)
             imp == Fields(tags.goImport)
         IN  IF Len(imp) >= 3 /\ extractGitHubFromURL(imp[3]).owner # ""
             THEN extractGitHubFromURL(imp[3])
             ELSE FirstHostingField(Fields(tags.goSource))

\* no response received (yet)
NoResponse == [kind |-> "none"]

\* module.EscapePath accepts the path
Escapable(path) == path = "valid"

\* http.NewRequestWithContext can parse "https://" + path + "?go-get=1"
Buildable(path) == path # "unbuildable"

ResolveOneInit ==
    /\ roPath \in {"valid", "unescapable", "unbuildable"}
    /\ roPc = "proxy"
    /\ roProxyResp = NoResponse
    /\ roProxyId = EmptyIdentity
    /\ roMetaResp = NoResponse
    /\ roRequests = <<>>
    /\ roOut = EmptyIdentity

ResolveOneIdle ==
    /\ roPath = "valid"
    /\ roPc = "returned"
    /\ roProxyResp = NoResponse
    /\ roProxyId = EmptyIdentity
    /\ roMetaResp = NoResponse
    /\ roRequests = <<>>
    /\ roOut = EmptyIdentity

\* resolveViaProxy up to client.Do: EscapePath fails, or the request goes out
ProxySend ==
    /\ UNCHANGED othersThanResolveOne
    /\ roPc = "proxy"
    /\ IF Escapable(roPath)
       THEN roPc' = "proxySent" /\ roRequests' = Append(roRequests, "proxy")
       ELSE roPc' = "proxyDone" /\ UNCHANGED roRequests
    /\ UNCHANGED <<roPath, roProxyResp, roProxyId, roMetaResp, roOut>>

\* client.Do returns; resolveViaProxy returns
ProxyReceive ==
    /\ UNCHANGED othersThanResolveOne
    /\ roPc = "proxySent"
    /\ roProxyResp' \in ProxyOutcomes
    /\ roProxyId' = ProxyIdentity(roProxyResp')
    /\ roPc' = "proxyDone"
    /\ UNCHANGED <<roPath, roMetaResp, roRequests, roOut>>

SkipsMeta_Never(id) == FALSE

\* if owner != "" { return owner, repo }
SkipsMeta(id) == id.owner # ""

\* resolveOne after the proxy stage: return its identity, or run
\* resolveViaMeta up to client.Do
AfterProxy ==
    /\ UNCHANGED othersThanResolveOne
    /\ roPc = "proxyDone"
    /\ IF SkipsMeta(roProxyId)
       THEN roOut' = roProxyId /\ roPc' = "returned" /\ UNCHANGED roRequests
       ELSE IF Buildable(roPath)
            THEN roPc' = "metaSent" /\ roRequests' = Append(roRequests, "meta")
                 /\ UNCHANGED roOut
            ELSE roOut' = EmptyIdentity /\ roPc' = "returned" /\ UNCHANGED roRequests
    /\ UNCHANGED <<roPath, roProxyResp, roProxyId, roMetaResp>>

\* client.Do returns; resolveViaMeta and resolveOne return
MetaReceive ==
    /\ UNCHANGED othersThanResolveOne
    /\ roPc = "metaSent"
    /\ roMetaResp' \in MetaOutcomes
    /\ roOut' = MetaIdentity(roMetaResp')
    /\ roPc' = "returned"
    /\ UNCHANGED <<roPath, roProxyResp, roProxyId, roRequests>>

ResolveOneNext == ProxySend \/ ProxyReceive \/ AfterProxy \/ MetaReceive

(***************************************************************************)
(* buildTree and findArchivedTransitive (--tree).                          *)
(***************************************************************************)
\* module paths of the tree inputs; PathB and PathB2 share the repository b/y
RootPath == <<"example.com", "m">>

PathA == <<"github.com", "a", "x">>

PathB == <<"github.com", "b", "y">>

PathB2 == <<"github.com", "b", "y", "v2">>

\* position of each path in ascending string order (the < of sort.Slice)
PathRank(p) ==
    CASE p = RootPath -> 1
      [] p = PathA -> 2
      [] p = PathB -> 3
      [] p = PathB2 -> 4

StringLess(p, q) == PathRank(p) < PathRank(q)

\* a graph key "path@version"; version "" is a key without "@"
Node(path, version) == [path |-> path, version |-> version]

\* the rootKey == "" of buildTree
NoKey == Node(<<>>, "")

RootNode == Node(RootPath, "")

ChildNodes == {Node(PathA, "v1"), Node(PathB, "v1"), Node(PathB, "v2")}

HasVersion(key) == key.version # ""

\* stripVersion: the text before the last "@", when there is one past index 0
stripVersion(key) == key.path

\* parseModGraph: graph[parent] = append(graph[parent], child) line by line
GraphOf(lines) ==
    [parent \in {l[1] : l \in Range(lines)} |->
        LET own == SelectSeq(lines, LAMBDA l : l[1] = parent)
        IN  [i \in 1..Len(own) |-> own[i][2]]]

\* go mod graph prints each edge once
GraphValues ==
    {GraphOf(lines) : lines \in
        {ls \in SeqsUpTo(({RootNode} \cup ChildNodes) \X ChildNodes, MaxEdges) :
            \A i, j \in DOMAIN ls : i # j => ls[i] # ls[j]}}

\* graph[node] of a Go map: nil for a missing key
Children(graph, node) == IF node \in DOMAIN graph THEN graph[node] ELSE <<>>

TreeModuleValues ==
    { NewModule(PathA, "v1", TRUE), NewModule(PathB, "v1", FALSE),
      NewModule(PathB2, "v2", FALSE) }

\* the identities FilterGitHub keeps (directOnly = false): the first entry of
\* each owner/repo, entries without an owner dropped
RECURSIVE FilterGitHubAll(_, _)
FilterGitHubAll(mods, kept) ==
    IF mods = <<>> THEN kept
    ELSE LET m == Head(mods)
         IN  IF IsNonGitHub(m) \/ \E k \in DOMAIN kept :
                                     IdentityKey(kept[k]) = IdentityKey(m)
             THEN FilterGitHubAll(Tail(mods), kept)
             ELSE FilterGitHubAll(Tail(mods), Append(kept, m))

\* what CheckRepos can answer for these modules, as far as buildTree reads it
StatusValues(mods) ==
    {[i \in DOMAIN mods |-> [NewRepoStatus(mods[i]) EXCEPT !.IsArchived = flags[i]]] :
        flags \in [DOMAIN mods -> BOOLEAN]}

\* findArchivedTransitive(node, graph, archivedPaths, visited): the result
\* slice and the visited map it leaves behind
RECURSIVE findArchivedTransitive(_, _, _, _)
RECURSIVE FindInChildren(_, _, _, _, _, _)
findArchivedTransitive(node, graph, archivedPaths, visited) ==
    IF node \in visited THEN [result |-> <<>>, visited |-> visited]
    ELSE FindInChildren(Children(graph, node), 1, graph, archivedPaths,
                        visited \cup {node}, <<>>)

\* the for loop of findArchivedTransitive from child number i on
FindInChildren(children, i, graph, archivedPaths, visited, result) ==
    IF i > Len(children) THEN [result |-> result, visited |-> visited]
    ELSE LET childMod == stripVersion(children[i])
             own == IF childMod \in archivedPaths THEN Append(result, childMod)
                    ELSE result
             sub == findArchivedTransitive(children[i], graph, archivedPaths, visited)
         IN  FindInChildren(children, i + 1, graph, archivedPaths, sub.visited,
                            own \o sub.result)

ArchivedPathsOf_StatusOnly(statuses, allMods) ==
    {statuses[i].Module.Path : i \in {i \in DOMAIN statuses : statuses[i].IsArchived}}

\* archivedPaths: paths of the archived statuses and every allModules path
\* of an archived status's owner/repo
ArchivedPathsOf(statuses, allMods) ==
    LET archived == {i \in DOMAIN statuses : statuses[i].IsArchived}
        repoKey(m) == m.Owner \o "/" \o m.Repo
    IN  {statuses[i].Module.Path : i \in archived}
            \cup {allMods[j].Path : j \in
                    {j \in DOMAIN allMods :
                        /\ allMods[j].Owner # ""
                        /\ \E i \in archived :
                               repoKey(allMods[j]) = repoKey(statuses[i].Module)}}

\* the keys the two map iterations of buildTree can leave in rootKey
RootKeyChoices(graph) ==
    LET unversioned == {k \in DOMAIN graph : ~HasVersion(k)}
        most == {k \in DOMAIN graph :
                    /\ Len(graph[k]) > 0
                    /\ \A o \in DOMAIN graph : Len(graph[o]) <= Len(graph[k])}
    IN  IF unversioned # {} THEN unversioned
        ELSE IF most # {} THEN most
        ELSE {NoKey}

treeEntry(directPath, archived) == [directPath |-> directPath, archived |-> archived]

\* one entry per result, archived or not
RECURSIVE FallbackEntries_AllStatuses(_)
FallbackEntries_AllStatuses(statuses) ==
    IF statuses = <<>> THEN <<>>
    ELSE <<treeEntry(Head(statuses).Module.Path, <<>>)>>
             \o FallbackEntries_AllStatuses(Tail(statuses))

\* one entry per archived result, in result order
RECURSIVE FallbackEntries(_)
FallbackEntries(statuses) ==
    IF statuses = <<>> THEN <<>>
    ELSE (IF Head(statuses).IsArchived
          THEN <<treeEntry(Head(statuses).Module.Path, <<>>)>> ELSE <<>>)
             \o FallbackEntries(Tail(statuses))

IncludesChild_SelfOnly(selfArchived, archivedTransitive) == selfArchived

\* if selfArchived || len(archivedTransitive) > 0
IncludesChild(selfArchived, archivedTransitive) ==
    selfArchived \/ Len(archivedTransitive) > 0

WithoutSelf_Keep(archivedTransitive, childMod) == archivedTransitive

\* the archived list of an entry: every a of archivedTransitive with
\* a != childMod, in order
WithoutSelf(archivedTransitive, childMod) ==
    SelectSeq(archivedTransitive, LAMBDA a : a # childMod)

\* the loop over graph[rootKey] from child number i on
RECURSIVE ChildEntries(_, _, _, _)
ChildEntries(children, i, graph, archivedPaths) ==
    IF i > Len(children) THEN <<>>
    ELSE LET child == children[i]
             childMod == stripVersion(child)
             archivedTransitive ==
                 findArchivedTransitive(child, graph, archivedPaths, {}).result
         IN  (IF IncludesChild(childMod \in archivedPaths, archivedTransitive)
              THEN <<treeEntry(childMod, WithoutSelf(archivedTransitive, childMod))>>
              ELSE <<>>)
                 \o ChildEntries(children, i + 1, graph, archivedPaths)

\* the multiset of a slice's elements
BagOf(entries) ==
    [e \in Range(entries) |-> Cardinality({i \in DOMAIN entries : entries[i] = e})]

IsSortedByPath(entries) ==
    \A i, j \in DOMAIN entries : i < j => ~StringLess(entries[j].directPath, entries[i].directPath)

\* sort.Slice by directPath: some ordering of the same entries with no later
\* entry less than an earlier one (sort.Slice is not stable)
SortedByPath(entries) ==
    {s \in [DOMAIN entries -> Range(entries)] :
        BagOf(s) = BagOf(entries) /\ IsSortedByPath(s)}

TreeInit ==
    /\ tAllModules \in {ms \in SeqsUpTo(TreeModuleValues, MaxTreeMods) :
                           \A i, j \in DOMAIN ms : i # j => ms[i].Path # ms[j].Path}
    /\ tResults \in StatusValues(FilterGitHubAll(tAllModules, <<>>))
    /\ tGraph \in GraphValues
    /\ tArchivedPaths = {}
    /\ tRootKey = NoKey
    /\ tEntries = <<>>
    /\ tPc = "lookups"

TreeIdle ==
    /\ tAllModules = <<>>
    /\ tResults = <<>>
    /\ tGraph = <<>>
    /\ tArchivedPaths = {}
    /\ tRootKey = NoKey
    /\ tEntries = <<>>
    /\ tPc = "returned"

\* the lookup maps; return nil when nothing is archived
TreeLookups ==
    /\ UNCHANGED othersThanTree
    /\ tPc = "lookups"
    /\ tArchivedPaths' = ArchivedPathsOf(tResults, tAllModules)
    /\ tPc' = IF tArchivedPaths' = {} THEN "returned" ELSE "root"
    /\ UNCHANGED <<tResults, tAllModules, tGraph, tRootKey, tEntries>>

\* the two range loops that pick rootKey
TreeFindRoot ==
    /\ UNCHANGED othersThanTree
    /\ tPc = "root"
    /\ tRootKey' \in RootKeyChoices(tGraph)
    /\ tPc' = "entries"
    /\ UNCHANGED <<tResults, tAllModules, tGraph, tArchivedPaths, tEntries>>

\* the flat fallback, or the entries of the root's children, sorted
TreeEntries ==
    /\ UNCHANGED othersThanTree
    /\ tPc = "entries"
    /\ IF tRootKey = NoKey
       THEN tEntries' = FallbackEntries(tResults)
       ELSE tEntries' \in SortedByPath(
                ChildEntries(Children(tGraph, tRootKey), 1, tGraph, tArchivedPaths))
    /\ tPc' = "returned"
    /\ UNCHANGED <<tResults, tAllModules, tGraph, tArchivedPaths, tRootKey>>

TreeNext == TreeLookups \/ TreeFindRoot \/ TreeEntries

(***************************************************************************)
(* findArchivedTransitive, one call at a time.                             *)
(***************************************************************************)
\* the frame of one call: its node argument, the index of the next child of
\* the for loop, its result so far, and whether the visited test is done
Frame(node) == [node |-> node, i |-> 1, result |-> <<>>, phase |-> "call"]

\* a callee returned r: the caller appends it and goes on to the next child
ReturnTo(stack, r) ==
    IF stack = <<>> THEN <<>>
    ELSE LET top == stack[Len(stack)]
         IN  [stack EXCEPT ![Len(stack)] =
                 [top EXCEPT !.result = top.result \o r, !.i = top.i + 1]]

MarkVisited_Forget(visited, node) == visited

\* visited[node] = true
MarkVisited(visited, node) == visited \cup {node}

TraverseInit ==
    /\ ftGraph \in GraphValues
    /\ ftArchived \in SUBSET {PathA, PathB}
    /\ ftStart \in ChildNodes
    /\ ftStack = <<Frame(ftStart)>>
    /\ ftVisited = {}
    /\ ftExpanded = [n \in {RootNode} \cup ChildNodes |-> 0]
    /\ ftCalls = 1
    /\ ftOut = <<>>
    /\ ftPc = "running"

TraverseIdle ==
    /\ ftGraph = <<>>
    /\ ftArchived = {}
    /\ ftStart = NoKey
    /\ ftStack = <<>>
    /\ ftVisited = {}
    /\ ftExpanded = <<>>
    /\ ftCalls = 0
    /\ ftOut = <<>>
    /\ ftPc = "returned"

\* if visited[node] { return nil }; visited[node] = true
FTEnter ==
    /\ UNCHANGED othersThanTraverse
    /\ ftPc = "running"
    /\ LET top == ftStack[Len(ftStack)]
           rest == SubSeq(ftStack, 1, Len(ftStack) - 1)
       IN  /\ top.phase = "call"
           /\ IF top.node \in ftVisited
              THEN /\ ftStack' = ReturnTo(rest, <<>>)
                   /\ ftPc' = IF rest = <<>> THEN "returned" ELSE "running"
                   /\ ftOut' = <<>>
                   /\ UNCHANGED <<ftVisited, ftExpanded>>
              ELSE /\ ftVisited' = MarkVisited(ftVisited, top.node)
                   /\ ftExpanded' = [ftExpanded EXCEPT ![top.node] = @ + 1]
                   /\ ftStack' = [ftStack EXCEPT ![Len(ftStack)].phase = "loop"]
                   /\ UNCHANGED <<ftPc, ftOut>>
    /\ UNCHANGED <<ftGraph, ftArchived, ftStart, ftCalls>>

\* one iteration of the for loop, up to the recursive call
FTVisitChild ==
    /\ UNCHANGED othersThanTraverse
    /\ ftPc = "running"
    /\ LET top == ftStack[Len(ftStack)]
           children == Children(ftGraph, top.node)
       IN  /\ top.phase = "loop"
           /\ top.i <= Len(children)
           /\ LET child == children[top.i]
                  childMod == stripVersion(child)
                  own == IF childMod \in ftArchived THEN Append(top.result, childMod)
                         ELSE top.result
              IN  ftStack' = Append([ftStack EXCEPT ![Len(ftStack)].result = own],
                                    Frame(child))
    /\ ftCalls' = ftCalls + 1
    /\ UNCHANGED <<ftGraph, ftArchived, ftStart, ftVisited, ftExpanded, ftOut, ftPc>>

\* the for loop is over: return result
FTReturn ==
    /\ UNCHANGED othersThanTraverse
    /\ ftPc = "running"
    /\ LET top == ftStack[Len(ftStack)]
           rest == SubSeq(ftStack, 1, Len(ftStack) - 1)
       IN  /\ top.phase = "loop"
           /\ top.i > Len(Children(ftGraph, top.node))
           /\ ftStack' = ReturnTo(rest, top.result)
           /\ ftPc' = IF rest = <<>> THEN "returned" ELSE "running"
           /\ ftOut' = IF rest = <<>> THEN top.result ELSE ftOut
    /\ UNCHANGED <<ftGraph, ftArchived, ftStart, ftVisited, ftExpanded, ftCalls>>

TraverseNext == FTEnter \/ FTVisitChild \/ FTReturn

(***************************************************************************)
(* runRecursive (--recursive), with resolveMode and deprecatedMode off.    *)
(***************************************************************************)
\* FilterGitHub(modules, directOnly) as a function of its arguments
FilterGitHubOf(mods, dOnly) ==
    FilterGitHubAll(SelectSeq(mods, LAMBDA m : ~SkippedByDirectOnly(m, dOnly)), <<>>)

NonGitHubCountOf(mods, dOnly) ==
    Cardinality({i \in DOMAIN mods :
                    ~SkippedByDirectOnly(mods[i], dOnly) /\ IsNonGitHub(mods[i])})

\* the require lists of the go.mod files of a tree: two paths of foo/bar, one
\* of them indirect, a vanity import, and baz/qux required by two files
GoModValues ==
    { <<NewModule(<<"github.com", "foo", "bar">>, "v1", TRUE),
        NewModule(<<"gopkg.in", "yaml.v3">>, "v1", TRUE)>>,
      <<NewModule(<<"github.com", "foo", "bar", "v2">>, "v2", FALSE),
        NewModule(<<"github.com", "baz", "qux">>, "v1", TRUE)>>,
      <<NewModule(<<"github.com", "baz", "qux">>, "v1", FALSE)>>,
      <<NewModule(<<"gopkg.in", "yaml.v3">>, "v1", TRUE)>> }

\* ParseGoMod on one path: an error, or the require list
ParseOutcomes ==
    {[ok |-> FALSE, mods |-> <<>>]} \cup {[ok |-> TRUE, mods |-> g] : g \in GoModValues}

NoExit == -1

moduleInfo(allMods) == [allModules |-> allMods, githubModules |-> <<>>, nonGHCount |-> 0]

\* phase 1: one moduleInfo per go.mod that parses, the others skipped
RECURSIVE ParseAll(_)
ParseAll(files) ==
    IF files = <<>> THEN <<>>
    ELSE (IF Head(files).ok THEN <<moduleInfo(Head(files).mods)>> ELSE <<>>)
             \o ParseAll(Tail(files))

GlobalKey_WithPath(m) == m.Owner \o "/" \o m.Repo \o "@" \o ToString(Len(m.Path))

\* key := m.Owner + "/" + m.Repo of the globalSeen loop
GlobalKey(m) == m.Owner \o "/" \o m.Repo

\* the loop over ghMods: append the modules whose key is new
RECURSIVE CollectUnique(_, _, _)
CollectUnique(ghMods, seenKeys, acc) ==
    IF ghMods = <<>> THEN [seen |-> seenKeys, all |-> acc]
    ELSE LET m == Head(ghMods)
         IN  IF GlobalKey(m) \in seenKeys
             THEN CollectUnique(Tail(ghMods), seenKeys, acc)
             ELSE CollectUnique(Tail(ghMods), seenKeys \cup {GlobalKey(m)},
                                Append(acc, m))

\* statusMap[r.Module.Owner+"/"+r.Module.Repo] = r, later results overwriting
StatusMapOf(statuses) ==
    [k \in {IdentityKey(statuses[i].Module) : i \in DOMAIN statuses} |->
        LET idx == {i \in DOMAIN statuses : IdentityKey(statuses[i].Module) = k}
        IN  statuses[CHOOSE i \in idx : \A j \in idx : j <= i]]

\* key := m.Owner + "/" + m.Repo of applyStatus
StatusKey(m) == m.Owner \o "/" \o m.Repo

applyStatus(mods, statusMap) ==
    [i \in DOMAIN mods |->
        LET key == StatusKey(mods[i])
        IN  IF key \in DOMAIN statusMap
            THEN [NewRepoStatus(mods[i]) EXCEPT
                     !.IsArchived = statusMap[key].IsArchived,
                     !.ArchivedAt = statusMap[key].ArchivedAt,
                     !.PushedAt = statusMap[key].PushedAt,
                     !.NotFound = statusMap[key].NotFound,
                     !.Error = statusMap[key].Error]
            ELSE NewRepoStatus(mods[i])]

\* getArchivedPaths(results) is not empty
HasArchived(statuses) == \E i \in DOMAIN statuses : statuses[i].IsArchived

RecursiveInit ==
    /\ rrWalkErr \in BOOLEAN
    /\ rrFiles \in SeqsUpTo(ParseOutcomes, MaxFiles)
    /\ rrDirectOnly \in BOOLEAN
    /\ rrWorkers \in WorkersFlags
    /\ rrModules = <<>>
    /\ rrI = 0
    /\ rrGlobalSeen = {}
    /\ rrAllGitHub = <<>>
    /\ rrOut = <<>>
    /\ rrExit = NoExit
    /\ rrPc = "find"
    /\ rrResolveMode = FALSE
    /\ rrDeprecatedMode = FALSE
    /\ rrLog = <<>>

RecursiveIdle ==
    /\ rrWalkErr = FALSE
    /\ rrFiles = <<>>
    /\ rrDirectOnly = FALSE
    /\ rrWorkers = DefaultWorkers
    /\ rrModules = <<>>
    /\ rrI = 0
    /\ rrGlobalSeen = {}
    /\ rrAllGitHub = <<>>
    /\ rrOut = <<>>
    /\ rrExit = NoExit
    /\ rrPc = "idle"
    /\ rrResolveMode = FALSE
    /\ rrDeprecatedMode = FALSE
    /\ rrLog = <<>>

\* findGoModFiles: an error or no go.mod at all returns 2
RRFind ==
    /\ UNCHANGED <<othersThanRecursive, crVars>>
    /\ rrPc = "find"
    /\ IF rrWalkErr \/ Len(rrFiles) = 0
       THEN rrPc' = "exit" /\ rrExit' = 2
       ELSE rrPc' = "parse" /\ UNCHANGED rrExit
    /\ UNCHANGED <<rrWalkErr, rrFiles, rrDirectOnly, rrWorkers, rrModules, rrI,
                   rrGlobalSeen, rrAllGitHub, rrOut>>
    /\ UNCHANGED phVars

\* an entry of the log: the phase entry point was called, or has returned
PhaseEvent(phase, ev) == [phase |-> phase, ev |-> ev]

\* where runRecursive goes on after a step: the tests of cfg.resolveMode and
\* cfg.deprecatedMode in front of phase 2 and phase 2.5, then the filter loop
PcAfter(pc, resolveMode, deprecatedMode) ==
    IF pc = "parse" /\ resolveMode THEN "resolve"
    ELSE IF pc \in {"parse", "resolve"} /\ deprecatedMode THEN "deprecate"
    ELSE "filter"

\* phase 1: parse every go.mod, skipping the ones that fail with a warning
RRParse ==
    /\ UNCHANGED <<othersThanRecursive, crVars>>
    /\ rrPc = "parse"
    /\ rrModules' = ParseAll(rrFiles)
    /\ rrPc' = PcAfter("parse", rrResolveMode, rrDeprecatedMode)
    /\ UNCHANGED <<rrWalkErr, rrFiles, rrDirectOnly, rrWorkers, rrI,
                   rrGlobalSeen, rrAllGitHub, rrOut, rrExit>>
    /\ UNCHANGED phVars

\* phase 3, one iteration: FilterGitHub on modules[i] and the globalSeen loop
RRFilter ==
    /\ UNCHANGED <<othersThanRecursive, crVars>>
    /\ rrPc = "filter"
    /\ rrI < Len(rrModules)
    /\ LET mi == rrModules[rrI + 1]
           ghMods == FilterGitHubOf(mi.allModules, rrDirectOnly)
           got == CollectUnique(ghMods, rrGlobalSeen, rrAllGitHub)
       IN  /\ rrModules' = [rrModules EXCEPT ![rrI + 1] =
                  [mi EXCEPT !.githubModules = ghMods,
                             !.nonGHCount = NonGitHubCountOf(mi.allModules, rrDirectOnly)]]
           /\ rrGlobalSeen' = got.seen
           /\ rrAllGitHub' = got.all
    /\ rrI' = rrI + 1
    /\ UNCHANGED <<rrWalkErr, rrFiles, rrDirectOnly, rrWorkers, rrOut, rrExit, rrPc>>
    /\ UNCHANGED phVars

\* after the loop: no valid go.mod returns 2, no GitHub module returns 0,
\* else CheckRepos(allGitHub, cfg.workers) is called
RRQuery ==
    /\ UNCHANGED othersThanRecursive
    /\ rrPc = "filter"
    /\ rrI = Len(rrModules)
    /\ IF Len(rrModules) = 0
       THEN rrPc' = "exit" /\ rrExit' = 2 /\ UNCHANGED crVars
       ELSE IF Len(rrAllGitHub) = 0
       THEN rrPc' = "exit" /\ rrExit' = 0 /\ UNCHANGED crVars
       ELSE /\ rrPc' = "checkrepos"
            /\ UNCHANGED rrExit
            /\ crModules' = rrAllGitHub
            /\ batchSize' = rrWorkers
            /\ crPc' = "start"
            /\ crI' = 0
            /\ crResults' = <<>>
            /\ crErr' = ""
            /\ crRequests' = <<>>
    /\ UNCHANGED <<rrWalkErr, rrFiles, rrDirectOnly, rrWorkers, rrModules, rrI,
                   rrGlobalSeen, rrAllGitHub, rrOut>>
    /\ rrLog' = IF rrPc' = "checkrepos"
                THEN Append(rrLog, PhaseEvent("archival", "call")) ELSE rrLog
    /\ UNCHANGED <<rrResolveMode, rrDeprecatedMode>>

\* CheckRepos runs
RRCheckRepos ==
    /\ rrPc = "checkrepos"
    /\ CRNext

\* CheckRepos has returned: an error returns 2; else the status map, the
\* per-file applyStatus of runRecursiveText / runRecursiveJSON, and 1 or 0
RROutput ==
    /\ UNCHANGED <<othersThanRecursive, crVars>>
    /\ rrPc = "checkrepos"
    /\ crPc = "returned"
    /\ IF crErr # ""
       THEN rrExit' = 2 /\ UNCHANGED rrOut
       ELSE /\ rrOut' = [f \in DOMAIN rrModules |->
                            applyStatus(rrModules[f].githubModules, StatusMapOf(crResults))]
            /\ rrExit' = IF \E f \in DOMAIN rrModules : HasArchived(rrOut'[f])
                         THEN 1 ELSE 0
    /\ rrPc' = "exit"
    /\ UNCHANGED <<rrWalkErr, rrFiles, rrDirectOnly, rrWorkers, rrModules, rrI,
                   rrGlobalSeen, rrAllGitHub>>
    /\ rrLog' = Append(rrLog, PhaseEvent("archival", "return"))
    /\ UNCHANGED <<rrResolveMode, rrDeprecatedMode>>

RecursiveNext == RRFind \/ RRParse \/ RRFilter \/ RRQuery \/ RRCheckRepos \/ RROutput

(***************************************************************************)
(* runRecursive with --resolve and --deprecated: phase 2 calls             *)
(* resolveAcrossModules, phase 2.5 calls checkDeprecationsAcrossModules,   *)
(* both on the allModules of every moduleInfo.                             *)
(***************************************************************************)
\* the datasets a cross-dataset scheduler is handed
DatasetsOf(infos) == [f \in DOMAIN infos |-> infos[f].allModules]

\* what the in-place writes of the scheduler leave in the []moduleInfo
WithDatasets(infos, data) ==
    [f \in DOMAIN infos |-> [infos[f] EXCEPT !.allModules = data[f]]]

CallReturned_NoWait(pc) == TRUE

\* the call of a scheduler is a plain function call: the caller goes on
\* when it has returned
CallReturned(pc) == pc = "returned"

PhasesInit ==
    /\ rrWalkErr = FALSE
    /\ rrFiles \in SeqsUpTo(ParseOutcomes, MaxPhaseFiles)
    /\ rrDirectOnly \in BOOLEAN
    /\ rrWorkers = DefaultWorkers
    /\ rrModules = <<>>
    /\ rrI = 0
    /\ rrGlobalSeen = {}
    /\ rrAllGitHub = <<>>
    /\ rrOut = <<>>
    /\ rrExit = NoExit
    /\ rrPc = "find"
    /\ rrResolveMode \in BOOLEAN
    /\ rrDeprecatedMode \in BOOLEAN
    /\ rrLog = <<>>

\* resolveAcrossModules(modules) / checkDeprecationsAcrossModules(modules)
\* is called
PhaseCall(k) ==
    /\ UNCHANGED <<crVars, qbVars, mainVars, egVars, roVars, treeVars, ftVars, rerunVars, cdVars>>
    /\ rrPc = k
    /\ form' = "across"
    /\ kind' = k
    /\ maxWorkers' = AcrossMaxWorkers
    /\ input' = DatasetsOf(rrModules)
    /\ modules' = input'
    /\ keyLocations' = <<>>
    /\ tasks' = {}
    /\ wpc' = <<>>
    /\ sem' = 0
    /\ wg' = 0
    /\ results' = <<>>
    /\ closed' = FALSE
    /\ count' = 0
    /\ mpc' = "collect"
    /\ calls' = <<>>
    /\ rrPc' = k \o "-running"
    /\ rrLog' = Append(rrLog, PhaseEvent(k, "call"))
    /\ UNCHANGED <<rrWalkErr, rrFiles, rrDirectOnly, rrWorkers, rrModules, rrI,
                   rrGlobalSeen, rrAllGitHub, rrOut, rrExit,
                   rrResolveMode, rrDeprecatedMode>>

\* the scheduler runs
PhaseRun(k) ==
    /\ rrPc = k \o "-running"
    /\ SchedNext

\* the scheduler has returned; the modules carry what it wrote
PhaseReturn(k) ==
    /\ UNCHANGED <<crVars, qbVars, mainVars, egVars, roVars, treeVars, ftVars, rerunVars, cdVars>>
    /\ UNCHANGED schedVars
    /\ rrPc = k \o "-running"
    /\ CallReturned(mpc)
    /\ rrModules' = WithDatasets(rrModules, modules)
    /\ rrPc' = PcAfter(k, rrResolveMode, rrDeprecatedMode)
    /\ rrLog' = Append(rrLog, PhaseEvent(k, "return"))
    /\ UNCHANGED <<rrWalkErr, rrFiles, rrDirectOnly, rrWorkers, rrI,
                   rrGlobalSeen, rrAllGitHub, rrOut, rrExit,
                   rrResolveMode, rrDeprecatedMode>>

RRResolveCall == PhaseCall("resolve")

RRResolveRun == PhaseRun("resolve")

RRResolveReturn == PhaseReturn("resolve")

RRDeprecateCall == PhaseCall("deprecate")

RRDeprecateRun == PhaseRun("deprecate")

RRDeprecateReturn == PhaseReturn("deprecate")

PhasesNext ==
    \/ RecursiveNext
    \/ RRResolveCall \/ RRResolveRun \/ RRResolveReturn
    \/ RRDeprecateCall \/ RRDeprecateRun \/ RRDeprecateReturn

(***************************************************************************)
(* calcDuration (--duration).                                              *)
(***************************************************************************)
Date(y, m, d) == [year |-> y, month |-> m, day |-> d]

IsLeap(year) == year % 4 = 0 /\ (year % 100 # 0 \/ year % 400 = 0)

\* the number of days of a month
DaysIn(year, month) ==
    IF month = 2 THEN (IF IsLeap(year) THEN 29 ELSE 28)
    ELSE IF month \in {4, 6, 9, 11} THEN 30 ELSE 31

\* every calendar date of the years under consideration
Dates ==
    {t \in [year : FirstYear..(FirstYear + MaxYearSpan), month : 1..12, day : 1..31] :
        t.day <= DaysIn(t.year, t.month)}

\* a is on or before b
OnOrBefore(a, b) ==
    \/ a.year < b.year
    \/ a.year = b.year /\ a.month < b.month
    \/ a.year = b.year /\ a.month = b.month /\ a.day <= b.day

\* to.AddDate(0, 0, 1)
AddOneDay(t) ==
    IF t.day < DaysIn(t.year, t.month) THEN Date(t.year, t.month, t.day + 1)
    ELSE IF t.month < 12 THEN Date(t.year, t.month + 1, 1)
    ELSE Date(t.year + 1, 1, 1)

\* time.Date(to.Year(), to.Month(), 0, ...).Day(): day 0 of a month is the
\* last day of the month before
DayZero(year, month) ==
    IF month = 1 THEN DaysIn(year - 1, 12) ELSE DaysIn(year, month - 1)

calcDuration(archivedAt, endDate) ==
    LET from    == archivedAt
        to      == AddOneDay(endDate)
        years   == to.year - from.year
        months  == to.month - from.month
        days    == to.day - from.day
        months2 == IF days < 0 THEN months - 1 ELSE months
        days2   == IF days < 0 THEN days + DayZero(to.year, to.month) ELSE days
    IN  [years  |-> IF months2 < 0 THEN years - 1 ELSE years,
         months |-> IF months2 < 0 THEN months2 + 12 ELSE months2,
         days   |-> days2]

NoDuration == [years |-> 0, months |-> 0, days |-> 0]

DurationInit ==
    /\ cdArchivedAt \in Dates
    /\ cdEndDate \in {t \in Dates : OnOrBefore(cdArchivedAt, t)}
    /\ cdOut = NoDuration
    /\ cdPc = "call"

DurationIdle ==
    /\ cdArchivedAt = Date(FirstYear, 1, 1)
    /\ cdEndDate = Date(FirstYear, 1, 1)
    /\ cdOut = NoDuration
    /\ cdPc = "returned"

\* y, m, d := calcDuration(archivedAt, durationEndDate)
CalcDuration ==
    /\ UNCHANGED othersThanDuration
    /\ cdPc = "call"
    /\ cdOut' = calcDuration(cdArchivedAt, cdEndDate)
    /\ cdPc' = "returned"
    /\ UNCHANGED <<cdArchivedAt, cdEndDate>>

DurationNext == CalcDuration

(***************************************************************************)
(* Specifications.                                                         *)
(***************************************************************************)
InitSched == SchedInit /\ CRIdle /\ QBIdle /\ MainIdle /\ ExtractIdle /\ ResolveOneIdle /\ TreeIdle /\ TraverseIdle /\ RecursiveIdle /\ DurationIdle

SpecSched == InitSched /\ [][SchedNext]_vars

InitRerun ==
    /\ RerunInit /\ CRIdle /\ QBIdle /\ MainIdle /\ ExtractIdle /\ ResolveOneIdle
    /\ TreeIdle /\ TraverseIdle /\ RecursiveIdle /\ DurationIdle

SpecRerun == InitRerun /\ [][RerunNext]_vars

InitQueryBatch == SchedIdle /\ CRIdle /\ QBInit /\ MainIdle /\ ExtractIdle /\ ResolveOneIdle /\ TreeIdle /\ TraverseIdle /\ RecursiveIdle /\ DurationIdle

SpecQueryBatch == InitQueryBatch /\ [][QBNext]_vars

InitCheckRepos == SchedIdle /\ CRInit /\ QBIdle /\ MainIdle /\ ExtractIdle /\ ResolveOneIdle /\ TreeIdle /\ TraverseIdle /\ RecursiveIdle /\ DurationIdle

SpecCheckRepos == InitCheckRepos /\ [][CRNext]_vars

InitMain == SchedIdle /\ CRIdle /\ QBIdle /\ MainInit /\ ExtractIdle /\ ResolveOneIdle /\ TreeIdle /\ TraverseIdle /\ RecursiveIdle /\ DurationIdle

SpecMain == InitMain /\ [][MainNext]_vars

InitExtract == SchedIdle /\ CRIdle /\ QBIdle /\ MainIdle /\ ExtractInit /\ ResolveOneIdle /\ TreeIdle /\ TraverseIdle /\ RecursiveIdle /\ DurationIdle

SpecExtract == InitExtract /\ [][ExtractNext]_vars

InitResolveOne == SchedIdle /\ CRIdle /\ QBIdle /\ MainIdle /\ ExtractIdle /\ ResolveOneInit /\ TreeIdle /\ TraverseIdle /\ RecursiveIdle /\ DurationIdle

SpecResolveOne == InitResolveOne /\ [][ResolveOneNext]_vars

InitTree ==
    /\ SchedIdle /\ CRIdle /\ QBIdle /\ MainIdle /\ ExtractIdle /\ ResolveOneIdle
    /\ TreeInit /\ TraverseIdle /\ RecursiveIdle /\ DurationIdle

SpecTree == InitTree /\ [][TreeNext]_vars

InitTraverse ==
    /\ SchedIdle /\ CRIdle /\ QBIdle /\ MainIdle /\ ExtractIdle /\ ResolveOneIdle
    /\ TreeIdle /\ TraverseInit /\ RecursiveIdle /\ DurationIdle

SpecTraverse == InitTraverse /\ [][TraverseNext]_vars

InitRecursive ==
    /\ SchedIdle /\ CRIdle /\ QBIdle /\ MainIdle /\ ExtractIdle /\ ResolveOneIdle
    /\ TreeIdle /\ TraverseIdle /\ RecursiveInit /\ DurationIdle

SpecRecursive == InitRecursive /\ [][RecursiveNext]_vars

InitPhases ==
    /\ SchedIdle /\ CRIdle /\ QBIdle /\ MainIdle /\ ExtractIdle /\ ResolveOneIdle
    /\ TreeIdle /\ TraverseIdle /\ PhasesInit /\ DurationIdle

SpecPhases == InitPhases /\ [][PhasesNext]_vars

InitDuration ==
    /\ SchedIdle /\ CRIdle /\ QBIdle /\ MainIdle /\ ExtractIdle /\ ResolveOneIdle
    /\ TreeIdle /\ TraverseIdle /\ RecursiveIdle /\ DurationInit

SpecDuration == InitDuration /\ [][DurationNext]_vars

(***************************************************************************)
(* Properties of the enrichment schedulers.                                *)
(***************************************************************************)
\* the locations of the input that need a lookup
NeedyLocations ==
    {l \in Range(AllLocations(input)) :
        kind = "deprecate" \/ At(input, l).Owner = ""}

\* the cross-dataset deduplication key: the path for vanity resolution,
\* path and version for proxy enrichment and deprecation lookup
AcrossKey(l) ==
    IF kind = "resolve" THEN At(input, l).Path
    ELSE [path |-> At(input, l).Path, version |-> At(input, l).Version]

EnrichmentFields(m) ==
    <<m.Owner, m.Repo, m.LatestVersion, m.SourceURL, m.VersionTime, m.Deprecated>>

AllGoroutinesDone ==
    /\ wg = 0
    /\ \A t \in tasks : t \in DOMAIN wpc /\ wpc[t] = "done"

\* C1: whenever lookups are in flight (started and not yet finished), their
\* number is at most maxWorkers, in every scheduler form and for every
\* number of items.
C1_InFlightAtMostMaxWorkers ==
    InFlight # {} => Cardinality(InFlight) <= maxWorkers

\* C1 witness: the semaphore is full, as many lookups as maxWorkers are in
\* flight and a further goroutine is waiting for a token.
C1_Witness ==
    /\ maxWorkers >= 1
    /\ Cardinality(InFlight) = maxWorkers
    /\ \E t \in DOMAIN wpc : wpc[t] = "acquire"

\* C2: in the cross-dataset forms no key is ever looked up twice and no
\* key that needs nothing is looked up; when the run returns, every key of
\* a location needing enrichment has been looked up exactly once.
C2_OneLookupPerUniqueKey ==
    form = "across" =>
        /\ \A k \in DOMAIN calls :
              calls[k] = 1 /\ \E l \in NeedyLocations : AcrossKey(l) = k
        /\ mpc = "returned" =>
              \A l \in NeedyLocations : AcrossKey(l) \in DOMAIN calls

\* C2 witness: a returned cross-dataset run in which two go.mod datasets
\* share a key and a second key was looked up as well.
C2_Witness ==
    /\ form = "across"
    /\ mpc = "returned"
    /\ Cardinality(DOMAIN calls) >= 2
    /\ \E l1, l2 \in NeedyLocations :
          l1[1] # l2[1] /\ AcrossKey(l1) = AcrossKey(l2) /\ calls[AcrossKey(l1)] = 1

\* C3: when a cross-dataset run has returned, any two locations grouped
\* under the same deduplication key hold the same enrichment fields.
C3_SameKeySameResult ==
    (form = "across" /\ mpc = "returned") =>
        \A l1, l2 \in NeedyLocations :
            AcrossKey(l1) = AcrossKey(l2) =>
                EnrichmentFields(At(modules, l1)) = EnrichmentFields(At(modules, l2))

\* C3 witness: a returned cross-dataset run that wrote a result to two
\* locations of different datasets sharing one key.
C3_Witness ==
    /\ form = "across"
    /\ mpc = "returned"
    /\ \E l1, l2 \in NeedyLocations :
          /\ l1[1] # l2[1]
          /\ AcrossKey(l1) = AcrossKey(l2)
          /\ At(modules, l1) # At(input, l1)
          /\ At(modules, l2) # At(input, l2)

\* C4: every step that changes a field of a module entry is taken by the
\* fan-out loop, after every goroutine has finished (wg.Wait returned) and
\* the result channel has been closed.
C4_WritesOnlyAfterWorkersFinish ==
    [][modules' # modules => (mpc = "fanout" /\ closed /\ AllGoroutinesDone)]_vars

\* C4 witness: a run of several goroutines whose fan-out has written.
C4_Witness ==
    /\ Cardinality(tasks) >= 2
    /\ modules # input
    /\ AllGoroutinesDone

(***************************************************************************)
(* Properties of the batch archival client.                                *)
(***************************************************************************)
Min(a, b) == IF a < b THEN a ELSE b

CeilDiv(n, b) == (n + b - 1) \div b

Identities(mods) == [n \in DOMAIN mods |-> <<mods[n].Owner, mods[n].Repo>>]

QueriedIdentities(query) == [n \in DOMAIN query |-> <<query[n].owner, query[n].name>>]

\* C5: a CheckRepos call that returns without error has issued exactly
\* ceil(N/B) batch requests, the j-th carrying the consecutive identities
\* (j-1)*B+1 .. min(j*B, N) in input order, and returns exactly N statuses,
\* the k-th carrying the k-th input module.
C5_BatchesAndOrder ==
    (crPc = "returned" /\ crErr = "") =>
        LET N == Len(crModules)
            B == batchSize
        IN  /\ Len(crResults) = N
            /\ \A k \in 1..N : crResults[k].Module = crModules[k]
            /\ Len(crRequests) = IF N = 0 THEN 0 ELSE CeilDiv(N, B)
            /\ \A j \in DOMAIN crRequests :
                  /\ Len(crRequests[j].query) <= B
                  /\ QueriedIdentities(crRequests[j].query) =
                        Identities(SubSeq(crModules, (j - 1) * B + 1, Min(j * B, N)))

\* C5 witness: three modules in batches of two came back as two requests,
\* the second one short.
C5_Witness ==
    /\ crPc = "returned"
    /\ crErr = ""
    /\ Len(crModules) = 3
    /\ batchSize = 2
    /\ Len(crRequests) = 2
    /\ Len(crRequests[2].query) = 1

\* the response cut down to what it says about one alias
RestrictTo(resp, alias) ==
    [data |-> [a \in DOMAIN resp.data \cap {alias} |-> resp.data[a]],
     errors |-> SelectSeq(resp.errors,
                          LAMBDA e : Len(e.path) > 0 /\ e.path[1] = alias)]

StatusFields(st) == <<st.IsArchived, st.ArchivedAt, st.PushedAt, st.NotFound, st.Error>>

\* C6: in one batch the query gives the i-th identity (from 0) the alias
\* r<i>; the i-th status carries the i-th module unchanged and is what the
\* response says about alias r<i> alone: the entries of all other aliases
\* can be dropped without changing it.
C6_AliasCorrelation ==
    qbPc = "returned" =>
        /\ Len(qbOut) = Len(qbModules)
        /\ Len(qbQuery) = Len(qbModules)
        /\ \A n \in DOMAIN qbModules :
              /\ qbQuery[n].alias = "r" \o ToString(n - 1)
              /\ qbQuery[n].owner = qbModules[n].Owner
              /\ qbQuery[n].name = qbModules[n].Repo
              /\ qbOut[n].Module = qbModules[n]
              /\ StatusFields(qbOut[n]) =
                    StatusFields(parseGraphQLResponse(
                        RestrictTo(qbResp, "r" \o ToString(n - 1)), qbModules)[n])

\* C6 witness: a parsed batch of two whose aliases r0 and r1 got different
\* answers, with an entry for an alias outside the batch present.
C6_Witness ==
    /\ qbPc = "returned"
    /\ Len(qbModules) = 2
    /\ {"r0", "r1", "r2"} \subseteq DOMAIN qbResp.data
    /\ qbResp.data["r0"] # qbResp.data["r1"]
    /\ qbOut[1].IsArchived # qbOut[2].IsArchived

\* the item-level failure messages a response reports for one alias
ReportedFailures(resp, alias) ==
    {resp.errors[j].message :
        j \in {i \in DOMAIN resp.errors :
                  Len(resp.errors[i].path) > 0 /\ resp.errors[i].path[1] = alias}}

HasData(resp, alias) == alias \in DOMAIN resp.data /\ ~resp.data[alias].isNull

\* C7: a status has notFound = true exactly when the response reports an
\* item-level failure for its alias or has no (or null) data for it; its
\* message is a reported failure message when one is reported and the
\* default otherwise; with no failure and data present notFound is false
\* and isArchived is the payload value.
C7_NotFoundRule ==
    qbPc = "returned" =>
        \A n \in DOMAIN qbOut :
            LET alias  == "r" \o ToString(n - 1)
                failed == ReportedFailures(qbResp, alias) # {}
                st     == qbOut[n]
            IN  /\ st.NotFound <=> (failed \/ ~HasData(qbResp, alias))
                /\ failed => st.Error \in ReportedFailures(qbResp, alias)
                /\ (~failed /\ ~HasData(qbResp, alias)) => st.Error = "repository not found"
                /\ (~failed /\ HasData(qbResp, alias)) =>
                      /\ ~st.NotFound
                      /\ st.IsArchived = qbResp.data[alias].isArchived

\* C7 witness: r0 has both data and a reported failure and is notFound with
\* that message; r1 has data only and carries the payload's isArchived.
C7_Witness ==
    /\ qbPc = "returned"
    /\ Len(qbOut) = 2
    /\ HasData(qbResp, "r0")
    /\ ReportedFailures(qbResp, "r0") = {"denied"}
    /\ qbOut[1].NotFound
    /\ qbOut[1].Error = "denied"
    /\ HasData(qbResp, "r1")
    /\ ReportedFailures(qbResp, "r1") = {}
    /\ qbOut[2].IsArchived
    /\ ~qbOut[2].NotFound

\* C8: a batch request that failed at transport level is the last request
\* of the call (it is not repeated and no later batch is sent), and the call
\* has returned that error with no statuses.
C8_TransportFailureAborts ==
    \A j \in DOMAIN crRequests :
        crRequests[j].outcome # "ok" =>
            /\ j = Len(crRequests)
            /\ crPc = "returned"
            /\ crErr = crRequests[j].outcome
            /\ crResults = <<>>

\* C8 witness: the second of three batches failed; the call has returned
\* the error after two requests.
C8_Witness ==
    /\ Len(crModules) = 3
    /\ batchSize = 1
    /\ Len(crRequests) = 2
    /\ crRequests[1].outcome = "ok"
    /\ crRequests[2].outcome = "status"
    /\ crPc = "returned"
    /\ crErr = "status"

(***************************************************************************)
(* Properties of FilterGitHub and of what main queries.                    *)
(***************************************************************************)
\* indices of the entries that pass the directOnly filter
PassingIndices == {i \in DOMAIN allModules : directOnly => allModules[i].Direct}

Identity(m) == <<m.Owner, m.Repo>>

\* passing entries with an owner that no earlier passing entry shares the
\* identity of
FirstOfIdentity ==
    {i \in PassingIndices :
        /\ allModules[i].Owner # ""
        /\ \A j \in PassingIndices :
              j < i => Identity(allModules[j]) # Identity(allModules[i])}

RECURSIVE InIndexOrder(_)
InIndexOrder(S) ==
    IF S = {} THEN <<>>
    ELSE LET i == CHOOSE x \in S : \A y \in S : x <= y
         IN  <<allModules[i]>> \o InIndexOrder(S \ {i})

\* C9: FilterGitHub returns, for each owner/repo identity among the entries
\* passing the directOnly filter, exactly one entry, the first such entry
\* of the input with its path, version and direct flag, and nothing else;
\* the returned list is in input order.
C9_FirstPerIdentity ==
    mainPc # "filter" /\ mainPc # "idle" =>
        /\ github = InIndexOrder(FirstOfIdentity)
        /\ \A i \in PassingIndices :
              allModules[i].Owner # "" =>
                  Cardinality({n \in DOMAIN github :
                      Identity(github[n]) = Identity(allModules[i])}) = 1

\* C9 witness: two passing entries with different paths share an identity,
\* the first is the one returned, and a second identity follows it.
C9_Witness ==
    /\ mainPc = "query"
    /\ Len(allModules) = 3
    /\ Len(github) = 2
    /\ Identity(allModules[1]) = Identity(allModules[2])
    /\ allModules[1].Path # allModules[2].Path
    /\ github[1] = allModules[1]
    /\ github[2] = allModules[3]

\* C10: no entry with an empty owner is in the filtered list, among the
\* modules passed to CheckRepos, in a batch query or in a status; every
\* visited entry with an empty owner that passes the directOnly filter has
\* been counted exactly once in nonGitHubCount.
C10_EmptyIdentityNeverQueried ==
    /\ \A n \in DOMAIN github : github[n].Owner # ""
    /\ nonGitHubCount =
          Cardinality({i \in PassingIndices : i <= fgI /\ allModules[i].Owner = ""})
    /\ \A n \in DOMAIN crModules : crModules[n].Owner # ""
    /\ \A j \in DOMAIN crRequests :
          \A n \in DOMAIN crRequests[j].query : crRequests[j].query[n].owner # ""
    /\ \A n \in DOMAIN crResults : crResults[n].Module.Owner # ""

\* C10 witness: the go.mod holds an entry without owner but with a repo
\* segment and a non-GitHub entry; both were counted, and the statuses of
\* the GitHub entries have come back.
C10_Witness ==
    /\ mainPc = "checkrepos"
    /\ crPc = "returned"
    /\ crErr = ""
    /\ Len(crResults) >= 1
    /\ nonGitHubCount = 2
    /\ \E i \in PassingIndices : allModules[i].Owner = "" /\ allModules[i].Repo # ""

(***************************************************************************)
(* Properties of extractGitHub.                                            *)
(***************************************************************************)
\* the path has the "github.com/" prefix and at least two segments after it
HasTwoSegmentsAfterHost(path) == Len(path) >= 3 /\ path[1] = HostDomain

\* C11: extractGitHub returns a non-empty owner and a non-empty repo for every
\* path with the hosting-domain prefix followed by at least two segments, and
\* the empty identity (owner and repo both empty) for every other path.
C11_ExtractGitHubContract ==
    egPc = "returned" =>
        IF HasTwoSegmentsAfterHost(egPath)
        THEN egOut.owner # "" /\ egOut.repo # ""
        ELSE egOut.owner = "" /\ egOut.repo = ""

(***************************************************************************)
(* Properties of resolveOne.                                               *)
(***************************************************************************)
MetaIssued == \E i \in DOMAIN roRequests : roRequests[i] = "meta"

ProxyStageDone == roPc \in {"proxyDone", "metaSent", "returned"}

\* C12 as stated: the meta-tag request is issued if and only if the proxy
\* stage has completed with an empty identity; a proxy identity is returned
\* as it is, without the meta-tag request.
C12_MetaIffProxyEmpty_Original ==
    /\ MetaIssued => (ProxyStageDone /\ roProxyId = EmptyIdentity)
    /\ roPc = "returned" =>
           /\ roProxyId = EmptyIdentity => MetaIssued
           /\ roProxyId # EmptyIdentity => (roOut = roProxyId /\ ~MetaIssued)

\* C12, amended: the meta-tag request is issued if and only if the proxy
\* stage has completed with an empty identity and the request for
\* "https://" + modulePath + "?go-get=1" can be built; a proxy identity is
\* returned as it is, without the meta-tag request, and a path whose request
\* cannot be built gets the empty identity.
C12_MetaIffProxyEmptyAndBuildable ==
    /\ MetaIssued => (ProxyStageDone /\ roProxyId = EmptyIdentity /\ Buildable(roPath))
    /\ roPc = "returned" =>
           /\ (roProxyId = EmptyIdentity /\ Buildable(roPath)) => MetaIssued
           /\ (roProxyId = EmptyIdentity /\ ~Buildable(roPath)) => roOut = EmptyIdentity
           /\ roProxyId # EmptyIdentity => (roOut = roProxyId /\ ~MetaIssued)

\* a proxy hit was returned without the meta stage, as in TestResolveOne
C12_Witness ==
    /\ roPc = "returned"
    /\ roProxyResp.kind = "origin"
    /\ roOut = [owner |-> "owner", repo |-> "repo"]
    /\ roRequests = <<"proxy">>

(***************************************************************************)
(* Properties of findArchivedTransitive and buildTree.                     *)
(***************************************************************************)
\* number of edges of a graph
EdgeCount(graph) ==
    LET RECURSIVE Sum(_)
        Sum(keys) == IF keys = {} THEN 0
                     ELSE LET k == CHOOSE x \in keys : TRUE
                          IN  Len(graph[k]) + Sum(keys \ {k})
    IN  Sum(DOMAIN graph)

\* C13: on every finite graph, cycles and self-loops included, the traversal
\* terminates (it makes at most one call per edge after the first, it is
\* never stuck before it has returned, and its result is the function's), and
\* within one top-level call no node is expanded more than once.
C13_TerminatesWithoutReexpansion ==
    /\ \A n \in DOMAIN ftExpanded : ftExpanded[n] <= 1
    /\ ftCalls <= 1 + EdgeCount(ftGraph)
    /\ ftPc # "returned" => ENABLED TraverseNext
    /\ (ftPc = "returned" /\ ftStart # NoKey) =>
           ftOut = findArchivedTransitive(ftStart, ftGraph, ftArchived, {}).result

\* a traversal over a cycle has returned, having met a visited node again
C13_Witness ==
    /\ ftPc = "returned"
    /\ ftStart = Node(PathA, "v1")
    /\ Node(PathA, "v1") \in DOMAIN ftGraph
    /\ Node(PathB, "v1") \in DOMAIN ftGraph
    /\ ftGraph[Node(PathA, "v1")] = <<Node(PathB, "v1")>>
    /\ ftGraph[Node(PathB, "v1")] = <<Node(PathA, "v1")>>
    /\ ftArchived = {PathB}
    /\ ftOut = <<PathB>>
    /\ ftCalls = 3

\* the elements of a list at their first occurrence, in order
RECURSIVE FirstOccurrences(_)
FirstOccurrences(list) ==
    IF list = <<>> THEN <<>>
    ELSE LET front == FirstOccurrences(SubSeq(list, 1, Len(list) - 1))
             last == list[Len(list)]
         IN  IF last \in Range(front) THEN front ELSE Append(front, last)

\* the archived module paths met below a child of the root, in the order the
\* traversal meets them, the child's own path left out
Discovered(child) ==
    SelectSeq(findArchivedTransitive(child, tGraph, tArchivedPaths, {}).result,
              LAMBDA a : a # stripVersion(child))

\* C14: in every entry buildTree returns, the archived-transitive list holds
\* each module path at most once, in order of first discovery.
C14_ArchivedListDeduplicated ==
    tPc = "returned" =>
        \A k \in DOMAIN tEntries :
            LET archived == tEntries[k].archived
            IN  /\ \A i, j \in DOMAIN archived : i # j => archived[i] # archived[j]
                /\ tRootKey # NoKey =>
                       \E child \in Range(Children(tGraph, tRootKey)) :
                           /\ stripVersion(child) = tEntries[k].directPath
                           /\ archived = FirstOccurrences(Discovered(child))

\* C15: the entries buildTree returns are sorted by directPath, ascending,
\* whichever branch produced them.
C15_EntriesSortedByPath ==
    tPc = "returned" => IsSortedByPath(tEntries)

ArchivedStatuses == {i \in DOMAIN tResults : tResults[i].IsArchived}

\* C16: with an empty graph and at least one archived status, buildTree
\* returns exactly one entry per archived status, carrying that status's
\* module path and an empty archived-transitive list.
C16_EmptyGraphFallback ==
    (tPc = "returned" /\ DOMAIN tGraph = {} /\ ArchivedStatuses # {}) =>
        /\ Len(tEntries) = Cardinality(ArchivedStatuses)
        /\ \A i \in ArchivedStatuses :
               Cardinality({k \in DOMAIN tEntries :
                               tEntries[k].directPath = tResults[i].Module.Path}) = 1
        /\ \A k \in DOMAIN tEntries :
               /\ tEntries[k].archived = <<>>
               /\ \E i \in ArchivedStatuses :
                      tEntries[k].directPath = tResults[i].Module.Path

\* an empty graph, one archived and one live status: one fallback entry
C16_Witness ==
    /\ tPc = "returned"
    /\ DOMAIN tGraph = {}
    /\ Len(tResults) = 2
    /\ Cardinality(ArchivedStatuses) = 1
    /\ Len(tEntries) = 1

(***************************************************************************)
(* C17: in a recursive run each distinct owner/repo identity is sent to    *)
(* the archival API at most once in the whole run, and every per-file      *)
(* module with that identity carries the status fields (isArchived,        *)
(* archivedAt, pushedAt, notFound, error) of that single status.           *)
(***************************************************************************)
\* the places (request, position) where identity key k was sent
SentAt(k) ==
    UNION {{<<j, n>> : n \in {n \in DOMAIN crRequests[j].query :
                crRequests[j].query[n].owner \o "/" \o crRequests[j].query[n].name = k}} :
           j \in DOMAIN crRequests}

C17_OneStatusPerIdentity ==
    /\ \A f \in DOMAIN rrModules : \A i \in DOMAIN rrModules[f].allModules :
          Cardinality(SentAt(IdentityKey(rrModules[f].allModules[i]))) <= 1
    /\ (rrPc = "exit" /\ rrOut # <<>>) =>
          \A f \in DOMAIN rrOut : \A i \in DOMAIN rrOut[f] :
              LET k == IdentityKey(rrOut[f][i].Module)
                  idx == {n \in DOMAIN crResults : IdentityKey(crResults[n].Module) = k}
              IN  /\ Cardinality(SentAt(k)) = 1
                  /\ Cardinality(idx) = 1
                  /\ \A n \in idx : StatusFields(rrOut[f][i]) = StatusFields(crResults[n])
                  /\ rrOut[f][i].Module = rrModules[f].githubModules[i]

\* C17 witness: two go.mod files require foo/bar under different module
\* paths; the identity went out once and both files show it archived.
C17_Witness ==
    /\ rrPc = "exit"
    /\ Len(rrOut) = 2
    /\ \E i \in DOMAIN rrOut[1] : \E j \in DOMAIN rrOut[2] :
          /\ IdentityKey(rrOut[1][i].Module) = "foo/bar"
          /\ IdentityKey(rrOut[2][j].Module) = "foo/bar"
          /\ rrOut[1][i].Module.Path # rrOut[2][j].Module.Path
          /\ rrOut[1][i].IsArchived /\ rrOut[2][j].IsArchived
    /\ Cardinality(SentAt("foo/bar")) = 1
    /\ Len(rrAllGitHub) = 2

(***************************************************************************)
(* C18: a run ends with exit code 2 if an error occurred (bad path, go.mod *)
(* parse failure, API error), otherwise with 1 if at least one checked     *)
(* dependency is archived, otherwise with 0.  Stated of the recursive run. *)
(***************************************************************************)
BadPath == rrWalkErr \/ Len(rrFiles) = 0

ParseFailure == \E f \in DOMAIN rrFiles : ~rrFiles[f].ok

APIError == crErr # ""

CheckedArchived == \E n \in DOMAIN crResults : crResults[n].IsArchived

C18_ExitCodes ==
    rrPc = "exit" =>
        rrExit = IF BadPath \/ ParseFailure \/ APIError THEN 2
                 ELSE IF CheckedArchived THEN 1
                 ELSE 0

(***************************************************************************)
(* C19: with a lookup that answers each (path, version) the same way every *)
(* time, a second scheduler run on the same input leaves the same          *)
(* enrichment fields on every entry as the first, and a run on the output  *)
(* of the first changes no field, whatever the order in which goroutines   *)
(* run and the location map is ranged over.                                *)
(***************************************************************************)
SameFields(d1, d2) ==
    /\ AllLocations(d1) = AllLocations(d2)
    /\ \A n \in DOMAIN AllLocations(d1) :
          At(d1, AllLocations(d1)[n]) = At(d2, AllLocations(d1)[n])

C19_RerunsIdempotent ==
    /\ (runNo = 2 /\ mpc = "returned") => SameFields(modules, firstOut)
    /\ runNo = 3 => SameFields(modules, firstOut)

\* C19 witness: the run on the output of the first run has returned after
\* writing two results again, one entry enriched and one left empty by a
\* failing lookup.
C19_Witness ==
    /\ runNo = 3
    /\ mpc = "returned"
    /\ kind = "enrich"
    /\ count = 2
    /\ \E n \in DOMAIN AllLocations(modules) :
          At(modules, AllLocations(modules)[n]).LatestVersion = "v9"
    /\ \E n \in DOMAIN AllLocations(modules) :
          /\ At(modules, AllLocations(modules)[n]).Owner = ""
          /\ At(modules, AllLocations(modules)[n]).LatestVersion = ""

(***************************************************************************)
(* C20: a lookup that fails for one item of a scheduler run (it returns    *)
(* the empty/zero value) leaves only that item's enrichment fields         *)
(* empty/zero; the run still completes and every other item receives the   *)
(* result of its own lookup.                                               *)
(***************************************************************************)
\* what the lookup service answers for the entry at a location
AnswerFor(l) == lookup.fn[LookupArg(kind, At(input, l))]

Failed(l) == AnswerFor(l) = ZeroResult(kind)

LookedUp == {l \in Range(AllLocations(input)) : NeedsLookup(kind, At(input, l))}

C20_FailureStaysLocal ==
    /\ mpc # "panic"
    /\ mpc # "returned" => ENABLED SchedNext
    /\ mpc = "returned" =>
          \A l \in Range(AllLocations(input)) :
              IF l \in LookedUp /\ ~Failed(l)
              THEN At(modules, l) = WriteResult(kind, At(input, l), AnswerFor(l))
              ELSE At(modules, l) = At(input, l)

\* C20 witness: a first run over two vanity entries has returned; the lookup
\* of one failed and its fields are still empty, the other carries its own
\* result.
C20_Witness ==
    /\ runNo = 1
    /\ mpc = "returned"
    /\ \E l1, l2 \in LookedUp :
          /\ Failed(l1) /\ ~Failed(l2)
          /\ EnrichmentFields(At(modules, l1)) = EnrichmentFields(At(input, l1))
          /\ At(input, l1).Owner = ""
          /\ EnrichmentFields(At(modules, l2)) # EnrichmentFields(At(input, l2))
          /\ \A t \in tasks : wpc[t] = "done"

(***************************************************************************)
(* C21: a scheduler call that takes a maxWorkers argument returns for      *)
(* every integer maxWorkers and every item count, provided each lookup     *)
(* returns: it never panics and, until it has returned, some goroutine can *)
(* always take a step (nothing stays blocked on the semaphore, the result  *)
(* channel or wg.Wait).                                                    *)
(***************************************************************************)
C21_SingleFormAlwaysReturns ==
    form = "single" =>
        /\ mpc # "panic"
        /\ mpc # "returned" => ENABLED SchedNext

(***************************************************************************)
(* C22: CheckRepos terminates for every batch size --workers can supply    *)
(* (0 and negative values included) and every non-empty list: each         *)
(* iteration of the batch loop that does not return with an error leaves   *)
(* the loop index strictly larger, and no slice bound leaves the list.     *)
(***************************************************************************)
C22_BatchLoopAdvances ==
    [][CRBatch => /\ crPc' # "panic"
                  /\ crErr' = "" => crI' > crI]_vars

(***************************************************************************)
(* C23: within one run the phases execute strictly one after another: no   *)
(* phase entry point is called before the previous one has returned, and   *)
(* no scheduler or batch query is active outside its own phase.  As first  *)
(* stated the order is vanity resolution, archival batch query,            *)
(* deprecation check; the order of the calls in runRecursive is vanity     *)
(* resolution, deprecation check, archival batch query.                    *)
(***************************************************************************)
\* every call in the log is followed by the return of the same phase
OneAtATime ==
    \A n \in DOMAIN rrLog :
        IF n % 2 = 1 THEN rrLog[n].ev = "call"
        ELSE rrLog[n].ev = "return" /\ rrLog[n].phase = rrLog[n - 1].phase

\* the phases appear in the log in the order given by rank
InOrder(rank) ==
    \A n1, n2 \in DOMAIN rrLog :
        n1 < n2 => rank[rrLog[n1].phase] <= rank[rrLog[n2].phase]

\* a scheduler is at work only inside the phase that called it, the batch
\* query only inside the archival phase
ActiveInsideOwnPhase ==
    /\ mpc # "returned" =>
          /\ rrPc = kind \o "-running"
          /\ rrLog # <<>>
          /\ rrLog[Len(rrLog)] = PhaseEvent(kind, "call")
    /\ crPc \in {"start", "loop"} =>
          /\ rrPc = "checkrepos"
          /\ rrLog[Len(rrLog)] = PhaseEvent("archival", "call")
          /\ mpc = "returned"

C23_PhaseOrder_Original ==
    /\ OneAtATime
    /\ ActiveInsideOwnPhase
    /\ InOrder([resolve |-> 1, archival |-> 2, deprecate |-> 3])

C23_PhasesSequential ==
    /\ OneAtATime
    /\ ActiveInsideOwnPhase
    /\ InOrder([resolve |-> 1, deprecate |-> 2, archival |-> 3])

\* C23 witness: a run with --resolve and --deprecated went through all three
\* phases, each with work to do, and has exited.
C23_Witness ==
    /\ rrPc = "exit"
    /\ Len(rrLog) = 6
    /\ rrLog[1] = PhaseEvent("resolve", "call")
    /\ rrLog[3] = PhaseEvent("deprecate", "call")
    /\ rrLog[5] = PhaseEvent("archival", "call")
    /\ rrLog[6] = PhaseEvent("archival", "return")
    /\ \E f \in DOMAIN rrModules : \E i \in DOMAIN rrModules[f].allModules :
          /\ rrModules[f].allModules[i].Owner = "up"
          /\ rrModules[f].allModules[i].Deprecated # ""
    /\ crRequests # <<>>

(***************************************************************************)
(* Reachability in the module graph, for the properties of buildTree.      *)
(***************************************************************************)
Successors(graph, nodes) == UNION {Range(Children(graph, n)) : n \in nodes}

RECURSIVE Closure(_, _)
Closure(graph, nodes) ==
    LET more == nodes \cup Successors(graph, nodes)
    IN  IF more = nodes THEN nodes ELSE Closure(graph, more)

\* the nodes reachable from node by one or more edges
Descendants(graph, node) == Closure(graph, Successors(graph, {node}))

\* the archived module paths beneath a node
ArchivedBeneath(graph, node, archivedPaths) ==
    {stripVersion(n) : n \in Descendants(graph, node)} \cap archivedPaths

RootFound == tPc = "returned" /\ tRootKey # NoKey

\* the children of the root that the claim gives an entry
Qualifying ==
    {j \in DOMAIN Children(tGraph, tRootKey) :
        LET c == Children(tGraph, tRootKey)[j]
        IN  \/ stripVersion(c) \in tArchivedPaths
            \/ ArchivedBeneath(tGraph, c, tArchivedPaths) # {}}

(***************************************************************************)
(* C24: when a root is identified, a child of the root appears as an entry *)
(* of buildTree's output if and only if its own module path is archived or *)
(* at least one archived module path lies beneath it; each such child      *)
(* yields one entry keyed by its stripped path.                            *)
(***************************************************************************)
C24_EntryIffArchivedOrBeneath ==
    RootFound =>
        /\ Len(tEntries) = Cardinality(Qualifying)
        /\ \A p \in {PathA, PathB, PathB2, RootPath} :
              Cardinality({i \in DOMAIN tEntries : tEntries[i].directPath = p})
                  = Cardinality({j \in Qualifying :
                        stripVersion(Children(tGraph, tRootKey)[j]) = p})

\* C24 witness: the root has two children; the one that is not archived
\* but has an archived module beneath it has an entry, the other has none.
C24_Witness ==
    /\ RootFound
    /\ tRootKey = RootNode
    /\ Len(Children(tGraph, tRootKey)) = 2
    /\ Len(tEntries) = 1
    /\ tEntries[1].directPath \notin tArchivedPaths
    /\ tEntries[1].archived # <<>>

(***************************************************************************)
(* C25: for every entry built from the graph, the set of module paths in   *)
(* its archived list is exactly the set of archived module paths of the    *)
(* nodes reachable from the direct dependency by one or more edges, minus  *)
(* the direct dependency's own path.                                       *)
(***************************************************************************)
ExpectedArchived(c) == ArchivedBeneath(tGraph, c, tArchivedPaths) \ {stripVersion(c)}

C25_ArchivedListIsReachableSet ==
    RootFound =>
        /\ \A i \in DOMAIN tEntries :
              \E j \in Qualifying :
                  LET c == Children(tGraph, tRootKey)[j]
                  IN  /\ stripVersion(c) = tEntries[i].directPath
                      /\ Range(tEntries[i].archived) = ExpectedArchived(c)
        /\ \A j \in Qualifying :
              LET c == Children(tGraph, tRootKey)[j]
              IN  \E i \in DOMAIN tEntries :
                      /\ stripVersion(c) = tEntries[i].directPath
                      /\ Range(tEntries[i].archived) = ExpectedArchived(c)

\* C25 witness: the direct dependency lies on a cycle with an archived
\* module, is archived itself, and its list holds the other module only.
C25_Witness ==
    /\ RootFound
    /\ \E i \in DOMAIN tEntries : \E j \in Qualifying :
          LET c == Children(tGraph, tRootKey)[j]
          IN  /\ stripVersion(c) = tEntries[i].directPath
              /\ c \in Descendants(tGraph, c)
              /\ stripVersion(c) \in tArchivedPaths
              /\ Range(tEntries[i].archived) = ExpectedArchived(c)
              /\ tEntries[i].archived # <<>>

(***************************************************************************)
(* C26: the archived-path set built by buildTree contains a module path if *)
(* and only if that path belongs to a status with isArchived = true or to  *)
(* an entry of allModules whose owner/repo identity equals the identity of *)
(* some status with isArchived = true.                                     *)
(***************************************************************************)
LookupsDone == tPc \in {"root", "entries"} \/ (tPc = "returned" /\ tResults # <<>>)

C26_ArchivedPathSet ==
    LookupsDone =>
        \A p \in {PathA, PathB, PathB2, RootPath} :
            p \in tArchivedPaths <=>
                \/ \E i \in ArchivedStatuses : tResults[i].Module.Path = p
                \/ \E j \in DOMAIN tAllModules : \E i \in ArchivedStatuses :
                      /\ tAllModules[j].Path = p
                      /\ IdentityKey(tAllModules[j]) = IdentityKey(tResults[i].Module)

\* C26 witness: the one status is that of github.com/b/y and is archived;
\* the set also holds github.com/b/y/v2, a second path of the same
\* repository that has no status of its own.
C26_Witness ==
    /\ LookupsDone
    /\ tArchivedPaths = {PathB, PathB2}
    /\ Len(tResults) = 1
    /\ tResults[1].Module.Path = PathB

(***************************************************************************)
(* C27: buildTree is a function of its inputs: for the same statuses,      *)
(* graph and module list it returns the same entries on every call,        *)
(* whatever the order in which the graph map is ranged over.  The entries  *)
(* returned are compared, as a multiset, with those of every key the two   *)
(* range loops can leave in rootKey.                                       *)
(***************************************************************************)
EntriesWithRoot(k) ==
    IF k = NoKey THEN FallbackEntries(tResults)
    ELSE ChildEntries(Children(tGraph, k), 1, tGraph, tArchivedPaths)

C27_SameEntriesOnEveryCall ==
    (tPc = "returned" /\ tArchivedPaths # {}) =>
        \A k \in RootKeyChoices(tGraph) :
            BagOf(tEntries) = BagOf(EntriesWithRoot(k))

(***************************************************************************)
(* C28: buildTree returns no entries only when no status is archived:      *)
(* whenever at least one status has IsArchived set, the returned entry     *)
(* list is non-empty, for every graph.                                     *)
(***************************************************************************)
C28_ArchivedGivesEntries ==
    (tPc = "returned" /\ ArchivedStatuses # {}) => tEntries # <<>>

(***************************************************************************)
(* Properties of the meta-tag stage.                                       *)
(***************************************************************************)
\* the content of the first declaration of the given name in the document,
\* <<>> when there is none
FirstDeclaration(body, name) ==
    LET idx == {i \in DOMAIN body : body[i].name = name}
    IN  IF idx = {} THEN <<>>
        ELSE body[CHOOSE i \in idx : \A j \in idx : i <= j].content

\* the identity of the third whitespace-separated field, if there is one
ThirdFieldIdentity(content) ==
    LET parts == Fields(content)
    IN  IF Len(parts) >= 3 THEN extractGitHubFromURL(parts[3]) ELSE EmptyIdentity

MetaStageDone == roPc = "returned" /\ roMetaResp # NoResponse /\ roMetaResp.kind = "ok"

\* C29: in the meta-tag stage, the identity of the third whitespace-separated
\* field of the first go-import declaration is returned whenever it is a
\* hosting identity; otherwise the result is the identity of the first
\* field of the first go-source declaration that yields a hosting identity;
\* if neither yields one, the empty identity is returned.
C29_MetaStageResult ==
    MetaStageDone =>
        LET imp == ThirdFieldIdentity(FirstDeclaration(roMetaResp.body, "go-import"))
            src == FirstHostingField(Fields(FirstDeclaration(roMetaResp.body, "go-source")))
        IN  roOut = IF imp # EmptyIdentity THEN imp ELSE src

\* the content of the first declaration of the given name whose content is
\* not empty, <<>> when there is none
FirstDeclarationWithContent(body, name) ==
    FirstDeclaration(SelectSeq(body, LAMBDA tag : tag.content # <<>>), name)

\* the fields of a content that yield a hosting identity, in order
HostingFields(content) ==
    SelectSeq(Fields(content), LAMBDA f : extractGitHubFromURL(f) # EmptyIdentity)

\* C29, amended: in the meta-tag stage, the identity of the third
\* whitespace-separated field of the first go-import declaration with a
\* non-empty content is returned whenever it is a hosting identity;
\* otherwise the result is the identity of the first field, of the first
\* go-source declaration with a non-empty content, that yields a hosting
\* identity; if neither yields one, the empty identity is returned.
C29_MetaStageResult_WithContent ==
    MetaStageDone =>
        LET imp  == ThirdFieldIdentity(FirstDeclarationWithContent(roMetaResp.body, "go-import"))
            hfs  == HostingFields(FirstDeclarationWithContent(roMetaResp.body, "go-source"))
        IN  roOut = IF imp # EmptyIdentity THEN imp
                    ELSE IF hfs # <<>> THEN extractGitHubFromURL(Head(hfs))
                    ELSE EmptyIdentity

\* a go-import naming another host and a go-source naming the hosting
\* domain, as in TestResolveViaMeta's second case: go-source decides
C29_Witness ==
    /\ MetaStageDone
    /\ roMetaResp.body =
           << [name |-> "go-import",
               content |-> << URL(FALSE, <<"example.com", "pkg">>), URL(FALSE, <<"git">>),
                              URL(TRUE, <<"go.googlesource.com", "text">>) >>],
              [name |-> "go-source",
               content |-> << URL(FALSE, <<"example.com", "pkg">>),
                              URL(TRUE, <<"github.com", "owner", "repo">>) >>] >>
    /\ roOut = [owner |-> "owner", repo |-> "repo"]

(***************************************************************************)
(* Properties of calcDuration.                                             *)
(***************************************************************************)
\* C30: for all calendar dates with archivedAt on or before endDate,
\* calcDuration returns years >= 0, 0 <= months <= 11 and days >= 0, and
\* (0, 0, 1) when both are the same day; no component is ever negative,
\* also when archivedAt falls on day 29-31 and the month before the end
\* date is shorter.
C30_DurationNonNegative ==
    (cdPc = "returned" /\ OnOrBefore(cdArchivedAt, cdEndDate)) =>
        /\ cdOut.years >= 0
        /\ cdOut.months \in 0..11
        /\ cdOut.days >= 0
        /\ cdArchivedAt = cdEndDate =>
               cdOut = [years |-> 0, months |-> 0, days |-> 1]

====
